---- MODULE Spec2Model ----
(***************************************************************************)
(* LLMSender: the task executors of main.py (execute_task and             *)
(* execute_pack_task) and the retry decorator of core/utils.py, as state  *)
(* machines.  One task invocation is followed statement by statement; the *)
(* plugins it calls (load, fetch, summarize, send) are the environment    *)
(* and answer nondeterministically (return, return a falsy value, raise). *)
(***************************************************************************)
EXTENDS Integers, Sequences, FiniteSets, TLC

\* ----------------------------------------------------------------- bounds
MaxNotifiers == 2
MaxErrorNotifiers == 2
MaxActions == 3
MaxRetries == 3
MaxBackoff == 3
MaxFiles == 2           \* entries of a plugin directory
MaxMembers == 2         \* members a plugin module exports
MaxDiscoverCalls == 2   \* calls of discover_plugins
MaxProxyVars == 2       \* entries of proxy_vars (8 in anthropic_sender.py 44-45)
MaxTasks == 2           \* tasks of the configuration / jobs the scheduler fires
MaxTweets == 2          \* tweets posted while the trigger is polling
MaxChecks == 3          \* check() calls on one trigger plugin
MaxSummaries == 3       \* summarize calls on one sender
MaxRuns == 2            \* task runs started by callbacks, jobs and test mode
MaxInvocations == 3     \* invocations of one task
MaxSends == 2           \* calls of a notifier's send
MaxPolls == 3           \* polls of one trigger

\* ------------------------------------------------------------- executor state
VARIABLES
    executor,       \* which method runs: "execute_task" | "execute_pack_task"
    task_config,    \* the task configuration handed to the executor
    pc,             \* position of the invocation in the method body
    notifiers,      \* notifiers = task_config.get('notifiers', []), once read
    error_notifiers,\* error_notifiers = task_config.get('error_notifiers', []), once read
    idx,            \* loop index of the notifier / error-notifier loop
    exc,            \* str(e) of the exception caught by the outer handler
    err_from,       \* stage in which the exception reaching the outer handler was raised
    final_output,   \* summary (execute_task) / final_output (execute_pack_task)
    should_notify,  \* the notification gate of execute_pack_task
    status,         \* "running" | "completed" | "failed" | "raised"
    log,            \* every plugin call of the invocation, in order
    stored,         \* the dicts nested in task_config, as they are in memory
    run,            \* 1: first invocation of the task, 2: a second one follows it
    first           \* how the first invocation went, once a second one runs

execVars == <<executor, task_config, pc, notifiers, error_notifiers, idx, exc,
              err_from, final_output, should_notify, status, log, stored, run, first>>

\* ---------------------------------------------------------------- retry state
VARIABLES
    retry_config,   \* the decorator's arguments: max_retries, backoff_factor, on_retry
    r_pc,           \* position inside wrapper()
    attempt,        \* the loop variable of "for attempt in range(max_retries)"
    caught,         \* e of the running except clause
    last_exception, \* last_exception
    r_log,          \* calls of func, on_retry and time.sleep, in order
    r_result        \* how wrapper() ended: returned a value or raised an exception

retryVars == <<retry_config, r_pc, attempt, caught, last_exception, r_log, r_result>>

\* --------------------------------------------------------- plugin loader state
VARIABLES
    plugin_dirs,    \* the plugin directories on disk: os.listdir order, or absent
    unit,           \* what the plugin modules of the directory export
    sys_modules,    \* module paths imported so far (sys.modules)
    discover_calls, \* number of discover_plugins calls made
    discovered,     \* per plugin type, the results discover_plugins has returned,
                    \* each with the modules imported when it was called
    loaded          \* the last load_plugin call and how it ended

loaderVars == <<plugin_dirs, unit, sys_modules, discover_calls, discovered, loaded>>

\* ------------------------------------------------- concurrent constructions
VARIABLES
    environ,          \* os.environ restricted to proxy_vars: a value, or unset
    environ0,         \* os.environ when the invocations start
    t_pc,             \* per invocation, its position in AnthropicSender.__init__
    t_var,            \* per invocation, the index of its running for loop
    proxy_env_backup, \* per invocation, proxy_env_backup in insertion order
    t_result,         \* per invocation, how the construction ended
    client_env        \* per invocation, the proxy variables set when the client was created

proxyVars == <<environ, environ0, t_pc, t_var, proxy_env_backup, t_result, client_env>>

\* ------------------------------------------------------ trigger manager state
VARIABLES
    loop,           \* per trigger id, the state of its poll loop
    in_flight,      \* per trigger id, the check() calls that have not returned
    task_running,   \* per trigger id, the tasks started by its callback and not ended
    polls           \* per trigger id, the check() calls made

triggerVars == <<loop, in_flight, task_running, polls>>

\* ---------------------------------------------------------- application state
VARIABLES
    mode,           \* "test" (--test) | "normal"
    app_pc,         \* position of the main thread in main() / run()
    task_i,         \* tasks the main thread or the scheduler has invoked
    scheduler,      \* the BlockingScheduler: "stopped" | "running" | "shutdown"
    manager,        \* the trigger manager: "running" | "shutdown"
    handler,        \* position of _signal_handler, once a signal has arrived
    sched_called,   \* scheduler.shutdown has been called
    late            \* tasks invoked after _signal_handler has ended

appVars == <<mode, app_pc, task_i, scheduler, manager, handler, sched_called, late>>

\* ------------------------------------------------------- trigger plugin state
VARIABLES
    api,            \* self.api: "client", or "None" after teardown()
    last_tweet_id,  \* self.last_tweet_id / self.last_mention_id, 0 for None
    trigger_data,   \* self._trigger_data: the ids of the tweets it holds, <<>> if unset
    newest,         \* id of the newest tweet of the timeline, 0 if it is empty
    n_checks,       \* check() calls made
    returned,       \* how the last check() ended: "none" | "true" | "false" | "raised"
    before,         \* last_tweet_id and trigger_data when the last check() was called
    expected        \* the tweets found by the last check() that returned true

tweetVars == <<api, last_tweet_id, trigger_data, newest, n_checks, returned, before, expected>>

\* ------------------------------------------------------ optional dependency
VARIABLES
    installed,      \* the anthropic package can be imported
    has_key,        \* an Anthropic API key is configured
    d_tasks,        \* the llm plugin of each task, in the order the tasks run
    d_i,            \* index of the running task
    d_pc,           \* position of its load_plugin('llm', ...) call
    binding,        \* the name anthropic in the module anthropic_sender
    cached,         \* the module anthropic_sender is in sys.modules
    d_exc,          \* the exception load_plugin is raising, if any
    d_outcomes      \* per task that has ended, its status and the exception it logged

depVars == <<installed, has_key, d_tasks, d_i, d_pc, binding, cached, d_exc, d_outcomes>>

\* ------------------------------------------------------ enhanced OpenAI sender
VARIABLES
    HAS_OPENAI_SDK, \* the module constant: import openai succeeded
    o_config,       \* the sender's config: its use_sdk entry, and whether a key is set
    o_pc,           \* "new" | "constructed" | "failed"
    use_sdk,        \* self.use_sdk
    o_calls         \* per summarize call, in order, the path taken

openaiVars == <<HAS_OPENAI_SDK, o_config, o_pc, use_sdk, o_calls>>

\* ---------------------------------------------------------- scheduling state
VARIABLES
    s_mode,         \* "test" (--test) | "normal"
    tasks,          \* self.config['tasks']: the kind of each task
    s_i,            \* tasks the for loop of schedule_tasks has handled
    task,           \* the loop variable task of schedule_tasks (index into tasks, 0 unbound)
    execute_func,   \* the variable execute_func of schedule_tasks
    callbacks,      \* the trigger ids a task_callback closure is registered under
    jobs,           \* the jobs added to the scheduler: id, func and args
    runs            \* the task runs started, in order

schedVars == <<s_mode, tasks, s_i, task, execute_func, callbacks, jobs, runs>>

\* ------------------------------------------------------- email notifier state
VARIABLES
    e_config,       \* the 'to_emails' entry of the notifier's configuration
    e_original,     \* that entry as the configuration was loaded
    env_to_emails,  \* the addresses of EMAIL_TO_EMAILS, <<>> when it is not set
    e_pc,           \* "load": the next invocation is due, "send": its notifier is built
    self_to_emails, \* self.to_emails: the configuration's own list, or a list of its own
    recipients      \* per invocation, whether it sent and the addresses it sent to

emailVars == <<e_config, e_original, env_to_emails, e_pc, self_to_emails, recipients>>

\* ------------------------------------------------- decorated notifier send state
VARIABLES
    s_plugin,       \* the notifier whose send is running: "bark", "telegram", or "none"
    s_pc,           \* "idle", "loop" (the for of the wrapper), "func" (in send), "called"; "off" when not in use
    s_attempt,      \* the wrapper's loop variable
    s_last_exception, \* the wrapper's last_exception
    s_ret,          \* how the call of send ended
    s_requests,     \* the HTTP requests made: the send they belong to and their outcome
    s_sleeps,       \* the seconds the wrapper has slept in the running send
    s_outcomes      \* per finished send, what the executor got

sendVars == <<s_plugin, s_pc, s_attempt, s_last_exception, s_ret, s_requests,
              s_sleeps, s_outcomes>>

vars == <<execVars, retryVars, loaderVars, proxyVars, triggerVars, appVars, tweetVars, depVars, openaiVars, schedVars, emailVars, sendVars>>
nonExecVars == <<retryVars, loaderVars, proxyVars, triggerVars, appVars, tweetVars, depVars, openaiVars, schedVars, emailVars, sendVars>>
nonRetryVars == <<execVars, loaderVars, proxyVars, triggerVars, appVars, tweetVars, depVars, openaiVars, schedVars, emailVars, sendVars>>
nonLoaderVars == <<execVars, retryVars, proxyVars, triggerVars, appVars, tweetVars, depVars, openaiVars, schedVars, emailVars, sendVars>>
nonProxyVars == <<execVars, retryVars, loaderVars, triggerVars, appVars, tweetVars, depVars, openaiVars, schedVars, emailVars, sendVars>>
nonTriggerVars == <<execVars, retryVars, loaderVars, proxyVars, appVars, tweetVars, depVars, openaiVars, schedVars, emailVars, sendVars>>
nonAppVars == <<execVars, retryVars, loaderVars, proxyVars, triggerVars, tweetVars, depVars, openaiVars, schedVars, emailVars, sendVars>>
nonAppTriggerVars == <<execVars, retryVars, loaderVars, proxyVars, tweetVars, depVars, openaiVars, schedVars, emailVars, sendVars>>
nonTweetVars == <<execVars, retryVars, loaderVars, proxyVars, triggerVars, appVars, depVars, openaiVars, schedVars, emailVars, sendVars>>
nonDepVars == <<execVars, retryVars, loaderVars, proxyVars, triggerVars, appVars, tweetVars, openaiVars, schedVars, emailVars, sendVars>>
nonOpenaiVars == <<execVars, retryVars, loaderVars, proxyVars, triggerVars, appVars, tweetVars, depVars, schedVars, emailVars, sendVars>>
nonSchedVars == <<execVars, retryVars, loaderVars, proxyVars, triggerVars, appVars, tweetVars, depVars, openaiVars, emailVars, sendVars>>
nonEmailVars == <<execVars, retryVars, loaderVars, proxyVars, triggerVars, appVars, tweetVars, depVars, openaiVars, schedVars, sendVars>>
nonSendVars == <<execVars, retryVars, loaderVars, proxyVars, triggerVars, appVars, tweetVars, depVars, openaiVars, schedVars, emailVars>>

\* ------------------------------------------------------------- configuration
Executors == {"execute_task", "execute_pack_task"}

\* A notifier entry either names a plugin ('plugin' key), a pack component
\* ('type' key) or neither.
NotifierShapes == {"plugin", "type", "none"}
ErrorNotifierShapes == {"plugin", "none"}

SeqsUpTo(S, n) == UNION {[1..k -> S] : k \in 0..n}

TaskConfigs ==
    [ has_name : BOOLEAN,            \* 'name' key present
      pack : BOOLEAN,                \* 'pack' key present
      content_plugin : BOOLEAN,      \* content.plugin present and non-empty
      llm_plugin : BOOLEAN,          \* llm.plugin present and non-empty
      actions : 0..MaxActions,       \* len(task_config['actions'])
      email : BOOLEAN ]              \* the notifier plugin named is email, with
                                     \* to_emails a list and EMAIL_TO_EMAILS set

\* no first invocation to follow
NoFirst == [log |-> <<>>, status |-> "", notifiers |-> <<>>, error_notifiers |-> <<>>]
\* the task held while no invocation is modelled
IdleTask ==
    [has_name |-> TRUE, pack |-> FALSE, content_plugin |-> TRUE, llm_plugin |-> TRUE,
     actions |-> 0, email |-> FALSE]

\* The dicts nested in task_config: the keys of content and of llm, and per
\* notifier entry its keys and the length of its to_emails list.
OriginalContent(cfg) == (IF cfg.content_plugin THEN {"plugin"} ELSE {}) \cup {"params"}
OriginalLLM(cfg) == (IF cfg.llm_plugin THEN {"plugin"} ELSE {}) \cup {"model"}
OriginalEntry(shape) ==
    [keys |-> (IF shape = "none" THEN {} ELSE {shape}) \cup {"to_emails"},
     to_emails |-> 1]
OriginalEntries(list) == [i \in DOMAIN list |-> OriginalEntry(list[i])]
InitialStore(cfg) ==
    [content |-> OriginalContent(cfg), llm |-> OriginalLLM(cfg),
     notifiers |-> <<>>, error_notifiers |-> <<>>]

\* x = d.copy(): x is a new dict ("copy"), not d itself ("original")
CopyOf(d) == "copy"
\* the keys of d after x.pop(key, None) and after x[key] = value: d changes
\* only when x is d
Popped(keys, x, key) == IF x = "original" THEN keys \ {key} ELSE keys
Added(keys, x, key) == IF x = "original" THEN keys \cup {key} ELSE keys
\* dict.copy() is shallow: the copy handed to the plugin holds the to_emails
\* list of the entry itself, and EmailNotifier.__init__ extends that list with
\* the addresses of EMAIL_TO_EMAILS (email.py 30-40)
Constructed(entry, cfg, loader) ==
    IF cfg.email /\ loader = "plugin_loader"
    THEN [entry EXCEPT !.to_emails = @ + 1]
    ELSE entry

\* The two lists of the configuration are drawn where the executor reads them
\* (main.py 126 / 258 and 160 / 299).  Without a 'pack' key a notifier's
\* 'type' key is never read (main.py 265): such an entry is represented by one
\* with neither key.
NotifierLists(cfg) ==
    SeqsUpTo(IF cfg.pack THEN NotifierShapes ELSE NotifierShapes \ {"type"},
             MaxNotifiers)
ErrorNotifierLists == SeqsUpTo(ErrorNotifierShapes, MaxErrorNotifiers)

\* task_config.get('name', 'Unnamed Task') / ('name', 'Unnamed Pack Task')
TaskName(ex, cfg) ==
    IF cfg.has_name THEN <<"daily">>
    ELSE IF ex = "execute_task" THEN <<"Unnamed Task">> ELSE <<"Unnamed Pack Task">>

\* ------------------------------------------------------------------ messages
\* A string is a prefix literal followed by a text, the text a sequence of
\* tokens (so that an action can extend an output).
Text(prefix, text) == [prefix |-> prefix, text |-> text]
NoText == Text("", <<>>)

\* title = task_config.get('title', task_name)
NotifyTitle(ex, cfg) == Text("", TaskName(ex, cfg))
\* (variant: the failure message without str(e))
ErrorMessage_NoText(e) == Text("Task failed", <<>>)
\* f"Task failed: {str(e)}"
ErrorMessage(e) == Text("Task failed: ", e)
\* f"Error: {task_name}"
ErrorTitle(ex, cfg) == Text("Error: ", TaskName(ex, cfg))

Event(ev, i, res, message, title) ==
    [ev |-> ev, idx |-> i, res |-> res, message |-> message, title |-> title]
Call(ev, i, res) == Event(ev, i, res, NoText, NoText)

\* ------------------------------------------------------------------- stages
StageOf(p) ==
    CASE p = "load_content" -> "INIT"
      [] p \in {"fetch", "get_prompt"} -> "FETCH_CONTENT"
      [] p \in {"llm_config", "get_llm_tools", "load_llm", "summarize"} -> "SUMMARIZE"
      [] p = "actions" -> "ACTIONS"
      [] p \in {"notify_begin", "notify", "notify_send", "log_completed"} -> "NOTIFY"
      [] p \in {"error_begin", "error", "err_send"} -> "ERROR"
      [] OTHER -> "DONE"

\* ------------------------------------------------------------ try structure
\* Where an exception raised at a position of the method body is handled:
\* "inner" is the try/except inside a notifier loop, "outer" the method's
\* try/except Exception, "none" means it leaves the method.
NotifierLoadHandler(ex) ==
    IF ex = "execute_task" THEN "inner" ELSE "outer"
\* (variant: notifier.send called outside the loop's try)
NotifierSendHandler_Outer(ex) == "outer"
NotifierSendHandler(ex) == "inner"
StageHandler(ex) == "outer"
\* (variant: the error-notifier loop without its try/except)
ErrorNotifierHandler_None(ex) == "none"
ErrorNotifierHandler(ex) == "inner"

\* ============================================================ plugin loader
\* core/plugin_loader.py.  A file name is a sequence of characters, so that
\* endswith('.py'), startswith('__') and filename[:-3] are computed on it.
\* plugin_loader.py 14-18: PLUGIN_DIRS
PLUGIN_DIRS ==
    [content |-> "send_to_ai_content", llm |-> "llm_message_sender",
     notifier |-> "message_notice"]
PluginTypes == DOMAIN PLUGIN_DIRS
\* the plugin types a caller may pass: the three known ones and an unknown one
RequestedTypes == PluginTypes \cup {"action"}
PluginDirNames == {PLUGIN_DIRS[t] : t \in PluginTypes}

WeatherPy == <<"w", ".", "p", "y">>
NewsPy == <<"n", ".", "p", "y">>
InitPy == <<"_", "_", "i", ".", "p", "y">>
ReadmeMd == <<"r", ".", "m", "d">>
\* the byte-code cache directory the import system creates
PyCache == <<"_", "_", "c", "_", "_">>
FileNames == {WeatherPy, NewsPy, InitPy, ReadmeMd}

\* a directory listing: distinct file names in os.listdir order
Listings(S, n) ==
    {l \in SeqsUpTo(S, n) : \A i, j \in DOMAIN l : i # j => l[i] # l[j]}
Absent == [exists |-> FALSE, listing |-> <<>>]
Directory(l) == [exists |-> TRUE, listing |-> l]

EndsWith(f, suffix) ==
    /\ Len(f) >= Len(suffix)
    /\ SubSeq(f, Len(f) - Len(suffix) + 1, Len(f)) = suffix
StartsWith(f, prefix) ==
    /\ Len(f) >= Len(prefix)
    /\ SubSeq(f, 1, Len(prefix)) = prefix
\* (variant: every directory entry taken for a plugin)
IsPluginFile_Any(filename) == TRUE
\* plugin_loader.py 40: filename.endswith('.py') and not filename.startswith('__')
IsPluginFile(filename) ==
    EndsWith(filename, <<".", "p", "y">>) /\ ~StartsWith(filename, <<"_", "_">>)
\* plugin_loader.py 41: plugin_name = filename[:-3]
PluginName(filename) == SubSeq(filename, 1, Len(filename) - 3)
\* plugin_loader.py 42, 53: f"{plugin_dir}.{plugin_name}"
ModulePath(plugin_dir, plugin_name) == [dir |-> plugin_dir, name |-> plugin_name]

\* the dict built by the loop of plugin_loader.py 39-42, in insertion order
RECURSIVE PluginsFrom(_, _, _)
PluginsFrom(plugin_dir, listing, i) ==
    IF i > Len(listing) THEN <<>>
    ELSE IF IsPluginFile(listing[i])
         THEN <<[name |-> PluginName(listing[i]),
                 path |-> ModulePath(plugin_dir, PluginName(listing[i]))]>>
              \o PluginsFrom(plugin_dir, listing, i + 1)
         ELSE PluginsFrom(plugin_dir, listing, i + 1)

Returns(items) == [kind |-> "return", items |-> items, exc |-> ""]
Raises(e) == [kind |-> "raise", items |-> <<>>, exc |-> e]

\* plugin_loader.py 26-45: discover_plugins
DiscoverPlugins(plugin_type, dirs) ==
    IF plugin_type \notin PluginTypes THEN Raises("ValueError")
    ELSE LET plugin_dir == PLUGIN_DIRS[plugin_type] IN
           IF ~dirs[plugin_dir].exists THEN Returns(<<>>)
           ELSE Returns(PluginsFrom(plugin_dir, dirs[plugin_dir].listing, 1))

\* What a plugin module exports: getattr(module, 'factory', None), and the
\* members dir(module) lists, in dir() order, each one the plugin type's
\* interface class itself, a class that subclasses it, or anything else.
FactoryShapes == {"absent", "callable", "not_callable"}
MemberShapes == {"interface", "subclass", "other"}
Units == [factory : FactoryShapes, members : SeqsUpTo(MemberShapes, MaxMembers)]
\* the plugin modules of the repository export a factory and one class
DefaultUnit == [factory |-> "callable", members |-> <<"subclass">>]

\* plugin_loader.py 82-91: _find_plugin_class; 0 stands for None
RECURSIVE FindPluginClass(_, _)
FindPluginClass(members, i) ==
    IF i > Len(members) THEN 0
    ELSE IF members[i] = "subclass" THEN i
    ELSE FindPluginClass(members, i + 1)

\* plugin_loader.py 59-60: factory_func and callable(factory_func)
UsesFactory(u) == u.factory = "callable"

NoLoad == [plugin_type |-> "", name |-> <<>>, by |-> "", member |-> 0, exc |-> ""]
Loaded(plugin_type, name, by, member, e) ==
    [plugin_type |-> plugin_type, name |-> name, by |-> by, member |-> member, exc |-> e]

\* ------------------------------------------------------ proxy environment
\* proxy_vars (anthropic_sender.py 44-45), by position in the list
ProxyVars == 1..MaxProxyVars
\* the task invocations that run at the same time
Threads == {"a", "b"}
Unset == "unset"
EnvValues == {"url"}
Environments == [ProxyVars -> EnvValues \cup {Unset}]
\* var in os.environ
InEnviron(env, var) == env[var] # Unset
NoResult == ""

\* ------------------------------------------------------------------ triggers
\* trigger_id = task_name (main.py 317, 334)
TriggerIds == {"news", "mentions"}

\* execute_task reads neither 'pack' nor 'actions' (main.py 85-175): the
\* configurations it runs on are represented by those without the two keys.
ExecInit ==
    /\ executor \in Executors
    /\ task_config \in TaskConfigs
    /\ executor = "execute_task" => ~task_config.pack /\ task_config.actions = 0
    /\ ~task_config.email
    /\ pc = "load_content"
    /\ notifiers = <<>>
    /\ error_notifiers = <<>>
    /\ idx = 0
    /\ exc = <<>>
    /\ err_from = ""
    /\ final_output = <<>>
    /\ should_notify = TRUE
    /\ status = "running"
    /\ log = <<>>
    /\ stored = InitialStore(task_config)
    /\ run = 1
    /\ first = NoFirst
    \* no decorated call is under way
    /\ retry_config = [max_retries |-> 0, backoff_factor |-> 1, on_retry |-> FALSE]
    /\ r_pc = "idle"
    /\ attempt = 0
    /\ caught = [type |-> "", id |-> 0]
    /\ last_exception = [type |-> "", id |-> 0]
    /\ r_log = <<>>
    /\ r_result = [kind |-> "none", exc |-> [type |-> "", id |-> 0], val |-> ""]
    \* the plugin loader is not in use
    /\ plugin_dirs = [d \in PluginDirNames |-> Absent]
    /\ unit = DefaultUnit
    /\ sys_modules = {}
    /\ discover_calls = 0
    /\ discovered = [t \in RequestedTypes |-> {}]
    /\ loaded = NoLoad
    \* no decorated send is in use
    /\ s_plugin = "none"
    /\ s_pc = "off"
    /\ s_attempt = 0
    /\ s_last_exception = "None"
    /\ s_ret = [kind |-> "none", val |-> FALSE, exc |-> "None"]
    /\ s_requests = <<>>
    /\ s_sleeps = <<>>
    /\ s_outcomes = <<>>
    \* no email notifier is in use
    /\ e_config = [kind |-> "absent", items |-> <<>>]
    /\ e_original = [kind |-> "absent", items |-> <<>>]
    /\ env_to_emails = <<>>
    /\ e_pc = "idle"
    /\ self_to_emails = [shared |-> FALSE, items |-> <<>>]
    /\ recipients = <<>>
    \* nothing is being scheduled
    /\ s_mode = "normal"
    /\ tasks = <<>>
    /\ s_i = 0
    /\ task = 0
    /\ execute_func = ""
    /\ callbacks = {}
    /\ jobs = {}
    /\ runs = <<>>
    \* no OpenAI sender is in use
    /\ HAS_OPENAI_SDK = TRUE
    /\ o_config = [use_sdk |-> "absent", api_key |-> TRUE]
    /\ o_pc = "idle"
    /\ use_sdk = "True"
    /\ o_calls = <<>>
    \* no plugin with an optional dependency is being loaded
    /\ installed = TRUE
    /\ has_key = TRUE
    /\ d_tasks = <<>>
    /\ d_i = 0
    /\ d_pc = "idle"
    /\ binding = "unbound"
    /\ cached = FALSE
    /\ d_exc = [type |-> "", hint |-> FALSE]
    /\ d_outcomes = <<>>
    \* no trigger plugin is in use
    /\ api = "None"
    /\ last_tweet_id = 0
    /\ trigger_data = <<>>
    /\ newest = 0
    /\ n_checks = 0
    /\ returned = "none"
    /\ before = [id |-> 0, data |-> <<>>]
    /\ expected = <<>>
    \* the application: run() is scheduling its tasks, no signal has arrived
    /\ mode = "normal"
    /\ app_pc = "startup"
    /\ task_i = 0
    /\ scheduler = "stopped"
    /\ manager = "running"
    /\ handler = "none"
    /\ sched_called = FALSE
    /\ late = 0
    \* no plugin is being constructed concurrently
    /\ environ = [v \in ProxyVars |-> Unset]
    /\ environ0 = [v \in ProxyVars |-> Unset]
    /\ t_pc = [t \in Threads |-> "idle"]
    /\ t_var = [t \in Threads |-> 0]
    /\ proxy_env_backup = [t \in Threads |-> <<>>]
    /\ t_result = [t \in Threads |-> NoResult]
    /\ client_env = [t \in Threads |-> {}]
    \* no trigger is registered
    /\ loop = [t \in TriggerIds |-> "UNREGISTERED"]
    /\ in_flight = [t \in TriggerIds |-> 0]
    /\ task_running = [t \in TriggerIds |-> 0]
    /\ polls = [t \in TriggerIds |-> 0]

\* An exception with text e raised at the current position, handled by h.
Raise(h, e) ==
    CASE h = "outer" ->
            /\ pc' = "error_begin"
            /\ exc' = e
            /\ err_from' = StageOf(pc)
            /\ UNCHANGED <<idx, status>>
      [] h = "none" ->
            /\ pc' = "raised"
            /\ status' = "raised"
            /\ UNCHANGED <<exc, err_from, idx>>
      [] OTHER -> FALSE

\* The exception is swallowed by a loop's own try/except (Continue is what the
\* loop does next); otherwise it is raised to handler h.
Caught(h, e, Continue) ==
    IF h = "inner" THEN Continue ELSE Raise(h, e)

\* how the first invocation of the task went
Outcome == [log |-> log, status |-> status, notifiers |-> notifiers,
            error_notifiers |-> error_notifiers]
SameCall(a, b) == a.ev = b.ev /\ a.idx = b.idx
\* In a second invocation every plugin behaves as it did in the first: a call
\* the first invocation made as well ends as it ended there.
Answers(ev) ==
    run = 2 =>
      \A k \in DOMAIN first.log : SameCall(first.log[k], ev) => first.log[k].res = ev.res
\* the first invocation read the notifier list: summarize had returned
NotifiersRead(f) ==
    \E k \in DOMAIN f.log : f.log[k].ev = "summarize" /\ f.log[k].res = "ok"
\* task_config.get('notifiers', []) and task_config.get('error_notifiers', []):
\* any list, and in a second invocation the list the first one read
ConfiguredNotifiers ==
    IF run = 2 /\ NotifiersRead(first) THEN {first.notifiers}
    ELSE NotifierLists(task_config)
ConfiguredErrorNotifiers ==
    IF run = 2 /\ first.status = "failed" THEN {first.error_notifiers}
    ELSE ErrorNotifierLists

Logged(ev) == log' = Append(log, ev) /\ Answers(ev)

\* ---------------------------------------------------------- content stage
\* main.py 91-100 (execute_task), 190-210 (execute_pack_task)
LoadContent ==
    /\ pc = "load_content"
    /\ UNCHANGED nonExecVars
    /\ UNCHANGED <<run, first>>
    /\ UNCHANGED <<executor, task_config, notifiers, error_notifiers, final_output, should_notify>>
    /\ IF executor = "execute_pack_task" /\ task_config.pack
       THEN UNCHANGED stored
       ELSE stored' = [stored EXCEPT !.content = Popped(@, CopyOf(@), "plugin")]
    /\ IF executor = "execute_pack_task" /\ task_config.pack
       THEN \E r \in {"ok", "none", "raise"} :
              /\ Logged(Call("load_content", 0, r))
              /\ CASE r = "ok" ->
                        /\ pc' = "fetch"
                        /\ UNCHANGED <<idx, exc, err_from, status>>
                   [] r = "none" ->
                        Raise(StageHandler(executor), <<"Failed to load content provider">>)
                   [] r = "raise" ->
                        Raise(StageHandler(executor), <<"content load error">>)
       ELSE IF ~task_config.content_plugin
       THEN /\ UNCHANGED log
            /\ Raise(StageHandler(executor), <<"Content plugin not specified">>)
       ELSE \E r \in {"ok", "raise"} :
              /\ Logged(Call("load_content", 0, r))
              /\ IF r = "ok"
                 THEN /\ pc' = "fetch"
                      /\ UNCHANGED <<idx, exc, err_from, status>>
                 ELSE Raise(StageHandler(executor), <<"content load error">>)

\* main.py 104, 214: content = content_provider.fetch()
Fetch ==
    /\ pc = "fetch"
    /\ UNCHANGED nonExecVars
    /\ UNCHANGED <<run, first>>
    /\ UNCHANGED stored
    /\ UNCHANGED <<executor, task_config, notifiers, error_notifiers, final_output, should_notify>>
    /\ \E r \in {"ok", "raise"} :
         /\ Logged(Call("fetch", 0, r))
         /\ IF r = "ok"
            THEN /\ pc' = "get_prompt"
                 /\ UNCHANGED <<idx, exc, err_from, status>>
            ELSE Raise(StageHandler(executor), <<"fetch error">>)

\* main.py 105, 215: prompt = content_provider.get_prompt()
GetPrompt ==
    /\ pc = "get_prompt"
    /\ UNCHANGED nonExecVars
    /\ UNCHANGED <<run, first>>
    /\ UNCHANGED stored
    /\ UNCHANGED <<executor, task_config, notifiers, error_notifiers, final_output, should_notify>>
    /\ \E r \in {"ok", "raise"} :
         /\ Logged(Call("get_prompt", 0, r))
         /\ IF r = "ok"
            THEN /\ pc' = "llm_config"
                 /\ UNCHANGED <<idx, exc, err_from, status>>
            ELSE Raise(StageHandler(executor), <<"get_prompt error">>)

\* -------------------------------------------------------------- LLM stage
\* (variant: the action stage entered whatever the configuration)
HasActions_Always(ex, cfg) == TRUE
\* main.py 226-228, 247: actions_config = task_config.get('actions', []);
\* if actions_config.  execute_task has no action stage.
HasActions(ex, cfg) == ex = "execute_pack_task" /\ cfg.actions > 0

\* main.py 108-115, 220-228: the llm plugin name is popped and checked
LLMConfig ==
    /\ pc = "llm_config"
    /\ UNCHANGED nonExecVars
    /\ UNCHANGED <<run, first>>
    /\ UNCHANGED <<executor, task_config, notifiers, error_notifiers, final_output, should_notify, log>>
    /\ stored' = [stored EXCEPT !.llm = Popped(@, CopyOf(@), "plugin")]
    /\ IF ~task_config.llm_plugin
       THEN Raise(StageHandler(executor), <<"LLM plugin not specified">>)
       ELSE /\ pc' = IF HasActions(executor, task_config)
                     THEN "get_llm_tools" ELSE "load_llm"
            /\ UNCHANGED <<idx, exc, err_from, status>>

\* main.py 229-232: llm_tools = self.action_pipeline.get_llm_tools(actions_config)
GetLLMTools ==
    /\ pc = "get_llm_tools"
    /\ UNCHANGED nonExecVars
    /\ UNCHANGED <<run, first>>
    /\ UNCHANGED <<executor, task_config, notifiers, error_notifiers, final_output, should_notify>>
    /\ \E r \in {"ok", "raise"} :
         /\ Logged(Call("get_llm_tools", 0, r))
         /\ IF r = "ok"
            THEN /\ stored' = [stored EXCEPT !.llm = Added(@, CopyOf(@), "tools")]
                 /\ pc' = "load_llm"
                 /\ UNCHANGED <<idx, exc, err_from, status>>
            ELSE /\ UNCHANGED stored
                 /\ Raise(StageHandler(executor), <<"get_llm_tools error">>)

\* main.py 117-119, 235-237: llm_sender = PluginLoader.load_plugin('llm', ...)
LoadLLM ==
    /\ pc = "load_llm"
    /\ UNCHANGED nonExecVars
    /\ UNCHANGED <<run, first>>
    /\ UNCHANGED stored
    /\ UNCHANGED <<executor, task_config, notifiers, error_notifiers, final_output, should_notify>>
    /\ \E r \in {"ok", "raise"} :
         /\ Logged(Call("load_llm", 0, r))
         /\ IF r = "ok"
            THEN /\ pc' = "summarize"
                 /\ UNCHANGED <<idx, exc, err_from, status>>
            ELSE Raise(StageHandler(executor), <<"llm load error">>)

\* main.py 123, 240-245: summary = llm_sender.summarize(prompt, content)
Summarize ==
    /\ pc = "summarize"
    /\ UNCHANGED nonExecVars
    /\ UNCHANGED <<run, first>>
    /\ UNCHANGED stored
    /\ UNCHANGED <<executor, task_config, notifiers, error_notifiers, should_notify>>
    /\ \E r \in {"ok", "raise"} :
         /\ Logged(Event("summarize", 0, r,
                         IF r = "ok" THEN Text("", <<"summary">>) ELSE NoText, NoText))
         /\ IF r = "ok"
            THEN /\ final_output' = <<"summary">>
                 /\ pc' = IF HasActions(executor, task_config)
                          THEN "actions" ELSE "notify_begin"
                 /\ UNCHANGED <<idx, exc, err_from, status>>
            ELSE /\ UNCHANGED final_output
                 /\ Raise(StageHandler(executor), <<"summarize error">>)
\* ------------------------------------------------------------ action stage
\* what an action's process() does: it returns its output with
\* should_continue true, returns it with should_continue false, or raises
ActionBehaviours == {"continue", "halt", "error"}
\* the mark action number i leaves on the output it returns and in the metadata
ActionMark(i) == ToString(i)

\* ActionPipeline.execute_pipeline: the actions are processed in declared
\* order, each on the output of the one before; the metadata of the executed
\* actions are merged; the first action that returns should_continue = false
\* ends the chain with its own output; an action that raises is caught and
\* ends the chain with should_continue = false.
RECURSIVE PipelineFrom(_, _, _, _)
PipelineFrom(output, metadata, behaviours, i) ==
    IF i > Len(behaviours)
    THEN [output |-> output, metadata |-> metadata, should_continue |-> TRUE,
          res |-> "ok", executed |-> i - 1]
    ELSE CASE behaviours[i] = "continue" ->
                 PipelineFrom(Append(output, ActionMark(i)),
                              Append(metadata, ActionMark(i)), behaviours, i + 1)
           [] behaviours[i] = "halt" ->
                 [output |-> Append(output, ActionMark(i)),
                  metadata |-> Append(metadata, ActionMark(i)),
                  should_continue |-> FALSE, res |-> "false", executed |-> i]
           [] behaviours[i] = "error" ->
                 [output |-> output, metadata |-> metadata,
                  should_continue |-> FALSE, res |-> "error", executed |-> i]

ExecutePipelineResult(llm_output, behaviours) ==
    PipelineFrom(llm_output, <<>>, behaviours, 1)

\* (variant: the output of the LLM kept as the final output)
FinalOutput_LLMOutput(llm_output, action_result) == llm_output
\* main.py 252: final_output = action_result.output
FinalOutput(llm_output, action_result) == action_result.output
\* (variant: the notification gate left open)
ShouldNotify_Always(action_result) == TRUE
\* main.py 253: should_notify = action_result.should_continue
ShouldNotify(action_result) == action_result.should_continue

\* main.py 247-254: the action pipeline decides final_output and should_notify
ExecutePipeline ==
    /\ pc = "actions"
    /\ UNCHANGED nonExecVars
    /\ UNCHANGED <<run, first>>
    /\ UNCHANGED stored
    /\ UNCHANGED <<executor, task_config, notifiers, error_notifiers, idx, exc, err_from, status>>
    /\ \E behaviours \in [1..task_config.actions -> ActionBehaviours] :
         LET action_result == ExecutePipelineResult(final_output, behaviours) IN
           /\ final_output' = FinalOutput(final_output, action_result)
           /\ should_notify' = ShouldNotify(action_result)
           /\ Logged(Event("execute_pipeline", action_result.executed, action_result.res,
                           Text("", action_result.output),
                           Text("", action_result.metadata)))
           /\ pc' = "notify_begin"

\* ------------------------------------------------------------ notify stage
\* (variant: the list walked from its end)
LoopEntry_Reversed(i, n) == n + 1 - i
\* main.py 129, 161, 261, 300: for notifier_config in notifiers -- the entry
\* of a list of n the i-th pass of the loop takes
LoopEntry(i, n) == i

\* How a notifier entry is resolved: by the pack loader, by the plugin loader,
\* or not at all (no usable key: the entry is skipped with a warning).
\* main.py 132-136 (execute_task), 265-276 (execute_pack_task)
NotifierLoader(ex, cfg, shape) ==
    IF ex = "execute_pack_task" /\ cfg.pack /\ shape = "type" THEN "pack_loader"
    ELSE IF shape = "plugin" THEN "plugin_loader"
    ELSE "skip"

\* main.py 126-127, 257-259, 291-292: the gate of execute_pack_task, and the
\* notifier list is read
NotifyBegin ==
    /\ pc = "notify_begin"
    /\ UNCHANGED nonExecVars
    /\ UNCHANGED <<run, first>>
    /\ UNCHANGED <<executor, task_config, error_notifiers, exc, err_from, final_output,
                   should_notify, status, log>>
    /\ IF should_notify
       THEN /\ notifiers' \in ConfiguredNotifiers
            /\ stored' = [stored EXCEPT !.notifiers =
                             IF run = 2 /\ NotifiersRead(first) THEN @
                             ELSE OriginalEntries(notifiers')]
            /\ idx' = 1
            /\ pc' = "notify"
       ELSE /\ pc' = "log_completed"
            /\ UNCHANGED <<notifiers, idx, stored>>

\* main.py 129, 261: the notifier loop is over
NotifyDone ==
    /\ pc = "notify"
    /\ UNCHANGED nonExecVars
    /\ UNCHANGED <<run, first>>
    /\ UNCHANGED stored
    /\ idx > Len(notifiers)
    /\ pc' = "log_completed"
    /\ UNCHANGED <<executor, task_config, notifiers, error_notifiers, idx, exc, err_from,
                   final_output, should_notify, status, log>>

\* main.py 129-141, 261-281: one notifier entry is resolved and loaded
NotifierLoad ==
    /\ pc = "notify"
    /\ UNCHANGED nonExecVars
    /\ UNCHANGED <<run, first>>
    /\ idx <= Len(notifiers)
    /\ UNCHANGED <<executor, task_config, notifiers, error_notifiers, final_output, should_notify>>
    /\ LET entry == LoopEntry(idx, Len(notifiers))
           loader == NotifierLoader(executor, task_config, notifiers[entry])
           notifier_config_copy == CopyOf(stored.notifiers[entry])
           \* notifier_config_copy.pop('type') / .pop('plugin', None)
           popped == [stored EXCEPT !.notifiers[entry].keys =
                        Popped(@, notifier_config_copy,
                               IF loader = "pack_loader" THEN "type" ELSE "plugin")]
           constructed == [popped EXCEPT !.notifiers[entry] =
                             Constructed(@, task_config, loader)]
           Next_ == /\ pc' = "notify"
                    /\ idx' = idx + 1
                    /\ UNCHANGED <<exc, err_from, status>>
       IN CASE loader = "skip" ->
                 /\ UNCHANGED log
                 /\ stored' = popped
                 /\ Next_
            [] loader = "plugin_loader" ->
                 \E r \in {"ok", "raise"} :
                   /\ Logged(Call("load_notifier", entry, r))
                   /\ IF r = "ok"
                      THEN /\ stored' = constructed
                           /\ pc' = "notify_send"
                           /\ UNCHANGED <<idx, exc, err_from, status>>
                      ELSE /\ stored' = popped
                           /\ Caught(NotifierLoadHandler(executor),
                                     <<"notifier load error">>, Next_)
            [] loader = "pack_loader" ->
                 \E r \in {"ok", "none", "raise"} :
                   /\ Logged(Call("load_notifier", entry, r))
                   /\ stored' = popped
                   /\ CASE r = "ok" ->
                             /\ pc' = "notify_send"
                             /\ UNCHANGED <<idx, exc, err_from, status>>
                        [] r = "none" -> Next_
                        [] r = "raise" ->
                             Caught(NotifierLoadHandler(executor),
                                    <<"notifier load error">>, Next_)

\* main.py 144-152, 282-290: success = notifier.send(summary, title)
NotifierSend ==
    /\ pc = "notify_send"
    /\ UNCHANGED nonExecVars
    /\ UNCHANGED <<run, first>>
    /\ UNCHANGED stored
    /\ UNCHANGED <<executor, task_config, notifiers, error_notifiers, final_output, should_notify>>
    /\ \E r \in {"ok", "false", "raise"} :
         /\ Logged(Event("send", LoopEntry(idx, Len(notifiers)), r, Text("", final_output),
                         NotifyTitle(executor, task_config)))
         /\ LET Next_ == /\ pc' = "notify"
                         /\ idx' = idx + 1
                         /\ UNCHANGED <<exc, err_from, status>>
            IN IF r = "raise"
               THEN Caught(NotifierSendHandler(executor), <<"send error">>, Next_)
               ELSE Next_

\* main.py 154, 294: logger.info("... completed successfully")
LogCompleted ==
    /\ pc = "log_completed"
    /\ UNCHANGED nonExecVars
    /\ UNCHANGED <<run, first>>
    /\ UNCHANGED stored
    /\ pc' = "done"
    /\ status' = "completed"
    /\ UNCHANGED <<executor, task_config, notifiers, error_notifiers, idx, exc, err_from, final_output,
                   should_notify, log>>

\* ------------------------------------------------------------ error handler
\* main.py 157-160, 297-299: the failure is logged, the error-notifier list read
ErrorBegin ==
    /\ pc = "error_begin"
    /\ UNCHANGED nonExecVars
    /\ UNCHANGED <<run, first>>
    /\ error_notifiers' \in ConfiguredErrorNotifiers
    /\ stored' = [stored EXCEPT !.error_notifiers =
                     IF run = 2 /\ first.status = "failed" THEN @
                     ELSE OriginalEntries(error_notifiers')]
    /\ idx' = 1
    /\ pc' = "error"
    /\ UNCHANGED <<executor, task_config, notifiers, exc, err_from, final_output,
                   should_notify, status, log>>

\* main.py 161, 300: the error-notifier loop is over
ErrorDone ==
    /\ pc = "error"
    /\ UNCHANGED nonExecVars
    /\ UNCHANGED <<run, first>>
    /\ UNCHANGED stored
    /\ idx > Len(error_notifiers)
    /\ pc' = "done"
    /\ status' = "failed"
    /\ UNCHANGED <<executor, task_config, notifiers, error_notifiers, idx, exc, err_from, final_output,
                   should_notify, log>>

\* main.py 162-169, 301-307: one error-notifier entry is loaded
ErrorNotifierLoad ==
    /\ pc = "error"
    /\ UNCHANGED nonExecVars
    /\ UNCHANGED <<run, first>>
    /\ idx <= Len(error_notifiers)
    /\ UNCHANGED <<executor, task_config, notifiers, error_notifiers, final_output, should_notify, exc, err_from>>
    /\ LET entry == LoopEntry(idx, Len(error_notifiers))
           notifier_config_copy == CopyOf(stored.error_notifiers[entry])
           \* notifier_config_copy.pop('plugin', None)
           popped == [stored EXCEPT !.error_notifiers[entry].keys =
                        Popped(@, notifier_config_copy, "plugin")]
           constructed == [popped EXCEPT !.error_notifiers[entry] =
                             Constructed(@, task_config, "plugin_loader")]
           Next_ == /\ pc' = "error"
                    /\ idx' = idx + 1
                    /\ UNCHANGED status
       IN IF error_notifiers[entry] # "plugin"
          THEN /\ UNCHANGED log
               /\ stored' = popped
               /\ Next_
          ELSE \E r \in {"ok", "raise"} :
                 /\ Logged(Call("load_error_notifier", entry, r))
                 /\ IF r = "ok"
                    THEN /\ stored' = constructed
                         /\ pc' = "err_send"
                         /\ UNCHANGED <<idx, status>>
                    ELSE /\ stored' = popped
                         /\ CASE ErrorNotifierHandler(executor) = "inner" -> Next_
                              [] OTHER ->
                                   /\ pc' = "raised"
                                   /\ status' = "raised"
                                   /\ UNCHANGED idx

\* main.py 170-175, 308-310: notifier.send(f"Task failed: ...", f"Error: ...")
ErrorNotifierSend ==
    /\ pc = "err_send"
    /\ UNCHANGED nonExecVars
    /\ UNCHANGED <<run, first>>
    /\ UNCHANGED stored
    /\ UNCHANGED <<executor, task_config, notifiers, error_notifiers, final_output, should_notify, exc, err_from>>
    /\ \E r \in {"ok", "false", "raise"} :
         /\ Logged(Event("send_error", LoopEntry(idx, Len(error_notifiers)), r, ErrorMessage(exc),
                         ErrorTitle(executor, task_config)))
         /\ IF r = "raise" /\ ErrorNotifierHandler(executor) # "inner"
            THEN /\ pc' = "raised"
                 /\ status' = "raised"
                 /\ UNCHANGED idx
            ELSE /\ pc' = "error"
                 /\ idx' = idx + 1
                 /\ UNCHANGED status

ExecNext ==
    \/ LoadContent
    \/ Fetch
    \/ GetPrompt
    \/ LLMConfig
    \/ GetLLMTools
    \/ LoadLLM
    \/ Summarize
    \/ ExecutePipeline
    \/ NotifyBegin
    \/ NotifyDone
    \/ NotifierLoad
    \/ NotifierSend
    \/ LogCompleted
    \/ ErrorBegin
    \/ ErrorDone
    \/ ErrorNotifierLoad
    \/ ErrorNotifierSend

\* ------------------------------------------------- the same task, run twice
\* main.py 320-321, 444-445: a task is handed to execute_task or to
\* execute_pack_task.  The task that execute_task has run is handed to
\* execute_pack_task, with the same task_config and the same plugins.
StartSecond ==
    /\ pc = "done"
    /\ run = 1
    /\ UNCHANGED nonExecVars
    /\ first' = Outcome
    /\ run' = 2
    /\ executor' = "execute_pack_task"
    /\ pc' = "load_content"
    /\ notifiers' = <<>>
    /\ error_notifiers' = <<>>
    /\ idx' = 0
    /\ exc' = <<>>
    /\ err_from' = ""
    /\ final_output' = <<>>
    /\ should_notify' = TRUE
    /\ status' = "running"
    /\ log' = <<>>
    /\ UNCHANGED <<task_config, stored>>

\* a task without pack, actions and trigger is run by execute_task
EquivInit ==
    /\ executor = "execute_task"
    /\ task_config \in TaskConfigs
    /\ ~task_config.pack /\ task_config.actions = 0 /\ ~task_config.email
    /\ pc = "load_content"
    /\ notifiers = <<>>
    /\ error_notifiers = <<>>
    /\ idx = 0
    /\ exc = <<>>
    /\ err_from = ""
    /\ final_output = <<>>
    /\ should_notify = TRUE
    /\ status = "running"
    /\ log = <<>>
    /\ stored = InitialStore(task_config)
    /\ run = 1
    /\ first = NoFirst
    \* no decorated call is under way
    /\ retry_config = [max_retries |-> 0, backoff_factor |-> 1, on_retry |-> FALSE]
    /\ r_pc = "idle"
    /\ attempt = 0
    /\ caught = [type |-> "", id |-> 0]
    /\ last_exception = [type |-> "", id |-> 0]
    /\ r_log = <<>>
    /\ r_result = [kind |-> "none", exc |-> [type |-> "", id |-> 0], val |-> ""]
    \* the plugin loader is not in use
    /\ plugin_dirs = [d \in PluginDirNames |-> Absent]
    /\ unit = DefaultUnit
    /\ sys_modules = {}
    /\ discover_calls = 0
    /\ discovered = [t \in RequestedTypes |-> {}]
    /\ loaded = NoLoad
    \* no decorated send is in use
    /\ s_plugin = "none"
    /\ s_pc = "off"
    /\ s_attempt = 0
    /\ s_last_exception = "None"
    /\ s_ret = [kind |-> "none", val |-> FALSE, exc |-> "None"]
    /\ s_requests = <<>>
    /\ s_sleeps = <<>>
    /\ s_outcomes = <<>>
    \* no email notifier is in use
    /\ e_config = [kind |-> "absent", items |-> <<>>]
    /\ e_original = [kind |-> "absent", items |-> <<>>]
    /\ env_to_emails = <<>>
    /\ e_pc = "idle"
    /\ self_to_emails = [shared |-> FALSE, items |-> <<>>]
    /\ recipients = <<>>
    \* nothing is being scheduled
    /\ s_mode = "normal"
    /\ tasks = <<>>
    /\ s_i = 0
    /\ task = 0
    /\ execute_func = ""
    /\ callbacks = {}
    /\ jobs = {}
    /\ runs = <<>>
    \* no OpenAI sender is in use
    /\ HAS_OPENAI_SDK = TRUE
    /\ o_config = [use_sdk |-> "absent", api_key |-> TRUE]
    /\ o_pc = "idle"
    /\ use_sdk = "True"
    /\ o_calls = <<>>
    \* no plugin with an optional dependency is being loaded
    /\ installed = TRUE
    /\ has_key = TRUE
    /\ d_tasks = <<>>
    /\ d_i = 0
    /\ d_pc = "idle"
    /\ binding = "unbound"
    /\ cached = FALSE
    /\ d_exc = [type |-> "", hint |-> FALSE]
    /\ d_outcomes = <<>>
    \* no trigger plugin is in use
    /\ api = "None"
    /\ last_tweet_id = 0
    /\ trigger_data = <<>>
    /\ newest = 0
    /\ n_checks = 0
    /\ returned = "none"
    /\ before = [id |-> 0, data |-> <<>>]
    /\ expected = <<>>
    \* the application: run() is scheduling its tasks, no signal has arrived
    /\ mode = "normal"
    /\ app_pc = "startup"
    /\ task_i = 0
    /\ scheduler = "stopped"
    /\ manager = "running"
    /\ handler = "none"
    /\ sched_called = FALSE
    /\ late = 0
    \* no plugin is being constructed concurrently
    /\ environ = [v \in ProxyVars |-> Unset]
    /\ environ0 = [v \in ProxyVars |-> Unset]
    /\ t_pc = [t \in Threads |-> "idle"]
    /\ t_var = [t \in Threads |-> 0]
    /\ proxy_env_backup = [t \in Threads |-> <<>>]
    /\ t_result = [t \in Threads |-> NoResult]
    /\ client_env = [t \in Threads |-> {}]
    \* no trigger is registered
    /\ loop = [t \in TriggerIds |-> "UNREGISTERED"]
    /\ in_flight = [t \in TriggerIds |-> 0]
    /\ task_running = [t \in TriggerIds |-> 0]
    /\ polls = [t \in TriggerIds |-> 0]

EquivNext ==
    \/ LoadContent
    \/ Fetch
    \/ GetPrompt
    \/ LLMConfig
    \/ LoadLLM
    \/ Summarize
    \/ NotifyBegin
    \/ NotifyDone
    \/ NotifierLoad
    \/ NotifierSend
    \/ LogCompleted
    \/ ErrorBegin
    \/ ErrorDone
    \/ ErrorNotifierLoad
    \/ ErrorNotifierSend
    \/ StartSecond

\* a task with its content and LLM plugins named, whose notifiers may be
\* email notifiers, is run by either executor
ConfigInit ==
    /\ executor \in Executors
    /\ task_config \in TaskConfigs
    /\ executor = "execute_task" => ~task_config.pack /\ task_config.actions = 0
    /\ task_config.has_name /\ task_config.content_plugin /\ task_config.llm_plugin
    /\ task_config.actions <= 1
    /\ pc = "load_content"
    /\ notifiers = <<>>
    /\ error_notifiers = <<>>
    /\ idx = 0
    /\ exc = <<>>
    /\ err_from = ""
    /\ final_output = <<>>
    /\ should_notify = TRUE
    /\ status = "running"
    /\ log = <<>>
    /\ stored = InitialStore(task_config)
    /\ run = 1
    /\ first = NoFirst
    \* no decorated call is under way
    /\ retry_config = [max_retries |-> 0, backoff_factor |-> 1, on_retry |-> FALSE]
    /\ r_pc = "idle"
    /\ attempt = 0
    /\ caught = [type |-> "", id |-> 0]
    /\ last_exception = [type |-> "", id |-> 0]
    /\ r_log = <<>>
    /\ r_result = [kind |-> "none", exc |-> [type |-> "", id |-> 0], val |-> ""]
    \* the plugin loader is not in use
    /\ plugin_dirs = [d \in PluginDirNames |-> Absent]
    /\ unit = DefaultUnit
    /\ sys_modules = {}
    /\ discover_calls = 0
    /\ discovered = [t \in RequestedTypes |-> {}]
    /\ loaded = NoLoad
    \* no decorated send is in use
    /\ s_plugin = "none"
    /\ s_pc = "off"
    /\ s_attempt = 0
    /\ s_last_exception = "None"
    /\ s_ret = [kind |-> "none", val |-> FALSE, exc |-> "None"]
    /\ s_requests = <<>>
    /\ s_sleeps = <<>>
    /\ s_outcomes = <<>>
    \* no email notifier is in use
    /\ e_config = [kind |-> "absent", items |-> <<>>]
    /\ e_original = [kind |-> "absent", items |-> <<>>]
    /\ env_to_emails = <<>>
    /\ e_pc = "idle"
    /\ self_to_emails = [shared |-> FALSE, items |-> <<>>]
    /\ recipients = <<>>
    \* nothing is being scheduled
    /\ s_mode = "normal"
    /\ tasks = <<>>
    /\ s_i = 0
    /\ task = 0
    /\ execute_func = ""
    /\ callbacks = {}
    /\ jobs = {}
    /\ runs = <<>>
    \* no OpenAI sender is in use
    /\ HAS_OPENAI_SDK = TRUE
    /\ o_config = [use_sdk |-> "absent", api_key |-> TRUE]
    /\ o_pc = "idle"
    /\ use_sdk = "True"
    /\ o_calls = <<>>
    \* no plugin with an optional dependency is being loaded
    /\ installed = TRUE
    /\ has_key = TRUE
    /\ d_tasks = <<>>
    /\ d_i = 0
    /\ d_pc = "idle"
    /\ binding = "unbound"
    /\ cached = FALSE
    /\ d_exc = [type |-> "", hint |-> FALSE]
    /\ d_outcomes = <<>>
    \* no trigger plugin is in use
    /\ api = "None"
    /\ last_tweet_id = 0
    /\ trigger_data = <<>>
    /\ newest = 0
    /\ n_checks = 0
    /\ returned = "none"
    /\ before = [id |-> 0, data |-> <<>>]
    /\ expected = <<>>
    \* the application: run() is scheduling its tasks, no signal has arrived
    /\ mode = "normal"
    /\ app_pc = "startup"
    /\ task_i = 0
    /\ scheduler = "stopped"
    /\ manager = "running"
    /\ handler = "none"
    /\ sched_called = FALSE
    /\ late = 0
    \* no plugin is being constructed concurrently
    /\ environ = [v \in ProxyVars |-> Unset]
    /\ environ0 = [v \in ProxyVars |-> Unset]
    /\ t_pc = [t \in Threads |-> "idle"]
    /\ t_var = [t \in Threads |-> 0]
    /\ proxy_env_backup = [t \in Threads |-> <<>>]
    /\ t_result = [t \in Threads |-> NoResult]
    /\ client_env = [t \in Threads |-> {}]
    \* no trigger is registered
    /\ loop = [t \in TriggerIds |-> "UNREGISTERED"]
    /\ in_flight = [t \in TriggerIds |-> 0]
    /\ task_running = [t \in TriggerIds |-> 0]
    /\ polls = [t \in TriggerIds |-> 0]


\* =================================================================== retry
\* core/utils.py 61-98: retry_with_backoff
NoExc == [type |-> "", id |-> 0]
\* The decorated functions of the repository retry on RequestException
\* (exceptions=(requests.RequestException,)); ConnectionError is a subclass of
\* it, ValueError is not.
RaisedTypes == {"RequestException", "ConnectionError", "ValueError"}
\* (variant: except Exception)
IsRetryable_All(t) == TRUE
IsRetryable(t) == t \in {"RequestException", "ConnectionError"}
Values == {"v1", "v2"}

RetryConfigs ==
    [ max_retries : 0..MaxRetries,
      backoff_factor : 1..MaxBackoff,
      on_retry : BOOLEAN ]

RECURSIVE Pow(_, _)
Pow(b, n) == IF n = 0 THEN 1 ELSE b * Pow(b, n - 1)

\* utils.py 79: if attempt < max_retries - 1
ShouldRetry(a, max_retries) == a < max_retries - 1
\* (variant: the exponent counted from one)
SleepTime_OneBased(b, a) == Pow(b, a + 1)
\* utils.py 80: sleep_time = backoff_factor ** attempt
SleepTime(b, a) == Pow(b, a)
\* (variant: on_retry ignored)
OnRetrySupplied_Never(cfg) == FALSE
\* utils.py 86: if on_retry
OnRetrySupplied(cfg) == cfg.on_retry
\* (variant: the loop variable passed as it is)
OnRetryArg_ZeroBased(a) == a
\* utils.py 87: on_retry(attempt + 1, e)
OnRetryArg(a) == a + 1
\* (variant: the last exception wrapped in a new one)
ReRaise_Wrapped(last) == [type |-> "RuntimeError", id |-> last.id]
\* utils.py 95: raise last_exception (raise None is a TypeError)
ReRaise(last) == IF last = NoExc THEN [type |-> "TypeError", id |-> 0] ELSE last

REvent(ev, n, e, val) == [ev |-> ev, n |-> n, exc |-> e, val |-> val]
Calls == {k \in 1..Len(r_log) : r_log[k].ev = "call"}

\* utils.py 71-74: wrapper() is entered
RetryInit ==
    /\ retry_config \in RetryConfigs
    /\ r_pc = "loop"
    /\ attempt = 0
    /\ caught = NoExc
    /\ last_exception = NoExc
    /\ r_log = <<>>
    /\ r_result = [kind |-> "none", exc |-> NoExc, val |-> ""]
    \* no task invocation is under way
    /\ executor = "execute_task"
    /\ task_config = IdleTask
    /\ pc = "idle"
    /\ notifiers = <<>>
    /\ error_notifiers = <<>>
    /\ idx = 0
    /\ exc = <<>>
    /\ err_from = ""
    /\ final_output = <<>>
    /\ should_notify = TRUE
    /\ status = "running"
    /\ log = <<>>
    /\ stored = InitialStore(IdleTask)
    /\ run = 1
    /\ first = NoFirst
    \* the plugin loader is not in use
    /\ plugin_dirs = [d \in PluginDirNames |-> Absent]
    /\ unit = DefaultUnit
    /\ sys_modules = {}
    /\ discover_calls = 0
    /\ discovered = [t \in RequestedTypes |-> {}]
    /\ loaded = NoLoad
    \* no decorated send is in use
    /\ s_plugin = "none"
    /\ s_pc = "off"
    /\ s_attempt = 0
    /\ s_last_exception = "None"
    /\ s_ret = [kind |-> "none", val |-> FALSE, exc |-> "None"]
    /\ s_requests = <<>>
    /\ s_sleeps = <<>>
    /\ s_outcomes = <<>>
    \* no email notifier is in use
    /\ e_config = [kind |-> "absent", items |-> <<>>]
    /\ e_original = [kind |-> "absent", items |-> <<>>]
    /\ env_to_emails = <<>>
    /\ e_pc = "idle"
    /\ self_to_emails = [shared |-> FALSE, items |-> <<>>]
    /\ recipients = <<>>
    \* nothing is being scheduled
    /\ s_mode = "normal"
    /\ tasks = <<>>
    /\ s_i = 0
    /\ task = 0
    /\ execute_func = ""
    /\ callbacks = {}
    /\ jobs = {}
    /\ runs = <<>>
    \* no OpenAI sender is in use
    /\ HAS_OPENAI_SDK = TRUE
    /\ o_config = [use_sdk |-> "absent", api_key |-> TRUE]
    /\ o_pc = "idle"
    /\ use_sdk = "True"
    /\ o_calls = <<>>
    \* no plugin with an optional dependency is being loaded
    /\ installed = TRUE
    /\ has_key = TRUE
    /\ d_tasks = <<>>
    /\ d_i = 0
    /\ d_pc = "idle"
    /\ binding = "unbound"
    /\ cached = FALSE
    /\ d_exc = [type |-> "", hint |-> FALSE]
    /\ d_outcomes = <<>>
    \* no trigger plugin is in use
    /\ api = "None"
    /\ last_tweet_id = 0
    /\ trigger_data = <<>>
    /\ newest = 0
    /\ n_checks = 0
    /\ returned = "none"
    /\ before = [id |-> 0, data |-> <<>>]
    /\ expected = <<>>
    \* the application: run() is scheduling its tasks, no signal has arrived
    /\ mode = "normal"
    /\ app_pc = "startup"
    /\ task_i = 0
    /\ scheduler = "stopped"
    /\ manager = "running"
    /\ handler = "none"
    /\ sched_called = FALSE
    /\ late = 0
    \* no plugin is being constructed concurrently
    /\ environ = [v \in ProxyVars |-> Unset]
    /\ environ0 = [v \in ProxyVars |-> Unset]
    /\ t_pc = [t \in Threads |-> "idle"]
    /\ t_var = [t \in Threads |-> 0]
    /\ proxy_env_backup = [t \in Threads |-> <<>>]
    /\ t_result = [t \in Threads |-> NoResult]
    /\ client_env = [t \in Threads |-> {}]
    \* no trigger is registered
    /\ loop = [t \in TriggerIds |-> "UNREGISTERED"]
    /\ in_flight = [t \in TriggerIds |-> 0]
    /\ task_running = [t \in TriggerIds |-> 0]
    /\ polls = [t \in TriggerIds |-> 0]

\* utils.py 74-77: one pass of the loop calls func; a return leaves wrapper(),
\* an exception in `exceptions` enters the except clause, any other exception
\* leaves wrapper() as it is.
Invoke ==
    /\ r_pc = "loop"
    /\ UNCHANGED nonRetryVars
    /\ attempt < retry_config.max_retries
    /\ UNCHANGED <<retry_config, attempt, last_exception>>
    /\ \/ \E v \in Values :
            /\ r_log' = Append(r_log, REvent("call", attempt, NoExc, v))
            /\ r_result' = [kind |-> "return", exc |-> NoExc, val |-> v]
            /\ r_pc' = "done"
            /\ UNCHANGED caught
       \/ \E t \in RaisedTypes :
            LET e == [type |-> t, id |-> Cardinality(Calls) + 1] IN
              /\ r_log' = Append(r_log, REvent("call", attempt, e, ""))
              /\ IF IsRetryable(t)
                 THEN /\ caught' = e
                      /\ r_pc' = "except"
                      /\ UNCHANGED r_result
                 ELSE /\ r_result' = [kind |-> "raise", exc |-> e, val |-> ""]
                      /\ r_pc' = "done"
                      /\ UNCHANGED caught

\* utils.py 77-93: the except clause
Except ==
    /\ r_pc = "except"
    /\ UNCHANGED nonRetryVars
    /\ last_exception' = caught
    /\ UNCHANGED <<retry_config, caught, r_log, r_result>>
    /\ IF ShouldRetry(attempt, retry_config.max_retries)
       THEN /\ r_pc' = IF OnRetrySupplied(retry_config) THEN "on_retry" ELSE "sleep"
            /\ UNCHANGED attempt
       ELSE /\ r_pc' = "loop"
            /\ attempt' = attempt + 1

\* utils.py 86-87
OnRetry ==
    /\ r_pc = "on_retry"
    /\ UNCHANGED nonRetryVars
    /\ r_log' = Append(r_log, REvent("on_retry", OnRetryArg(attempt), caught, ""))
    /\ r_pc' = "sleep"
    /\ UNCHANGED <<retry_config, attempt, caught, last_exception, r_result>>

\* utils.py 89: time.sleep(sleep_time), then the next pass of the loop
Sleep ==
    /\ r_pc = "sleep"
    /\ UNCHANGED nonRetryVars
    /\ r_log' = Append(r_log,
                       REvent("sleep", SleepTime(retry_config.backoff_factor, attempt),
                              NoExc, ""))
    /\ r_pc' = "loop"
    /\ attempt' = attempt + 1
    /\ UNCHANGED <<retry_config, caught, last_exception, r_result>>

\* utils.py 95: the loop is exhausted
RaiseLast ==
    /\ r_pc = "loop"
    /\ UNCHANGED nonRetryVars
    /\ attempt >= retry_config.max_retries
    /\ r_result' = [kind |-> "raise", exc |-> ReRaise(last_exception), val |-> ""]
    /\ r_pc' = "done"
    /\ UNCHANGED <<retry_config, attempt, caught, last_exception, r_log>>

RetryNext ==
    \/ Invoke
    \/ Except
    \/ OnRetry
    \/ Sleep
    \/ RaiseLast

\* ============================================================ plugin loader
\* the names load_plugin is asked for: one that may have a file, one that has none
LoadNames == {<<"w">>, <<"x">>}
SourceFile(plugin_name) == plugin_name \o <<".", "p", "y">>
HasEntry(d, filename) == \E i \in DOMAIN d.listing : d.listing[i] = filename
InsertAt(l, pos, x) == SubSeq(l, 1, pos - 1) \o <<x>> \o SubSeq(l, pos, Len(l))

\* One plugin directory is on disk, with any listing; its modules export a
\* factory, as the plugin modules of the repository do; nothing is imported
\* and no loader call was made.
LoaderInit ==
    /\ \E t \in PluginTypes :
         \E d \in {Absent} \cup {Directory(l) : l \in Listings(FileNames, MaxFiles)} :
           plugin_dirs = [x \in PluginDirNames |-> IF x = PLUGIN_DIRS[t] THEN d ELSE Absent]
    /\ unit = DefaultUnit
    /\ sys_modules = {}
    /\ discover_calls = 0
    /\ discovered = [t \in RequestedTypes |-> {}]
    /\ loaded = NoLoad
    \* no decorated send is in use
    /\ s_plugin = "none"
    /\ s_pc = "off"
    /\ s_attempt = 0
    /\ s_last_exception = "None"
    /\ s_ret = [kind |-> "none", val |-> FALSE, exc |-> "None"]
    /\ s_requests = <<>>
    /\ s_sleeps = <<>>
    /\ s_outcomes = <<>>
    \* no email notifier is in use
    /\ e_config = [kind |-> "absent", items |-> <<>>]
    /\ e_original = [kind |-> "absent", items |-> <<>>]
    /\ env_to_emails = <<>>
    /\ e_pc = "idle"
    /\ self_to_emails = [shared |-> FALSE, items |-> <<>>]
    /\ recipients = <<>>
    \* nothing is being scheduled
    /\ s_mode = "normal"
    /\ tasks = <<>>
    /\ s_i = 0
    /\ task = 0
    /\ execute_func = ""
    /\ callbacks = {}
    /\ jobs = {}
    /\ runs = <<>>
    \* no OpenAI sender is in use
    /\ HAS_OPENAI_SDK = TRUE
    /\ o_config = [use_sdk |-> "absent", api_key |-> TRUE]
    /\ o_pc = "idle"
    /\ use_sdk = "True"
    /\ o_calls = <<>>
    \* no plugin with an optional dependency is being loaded
    /\ installed = TRUE
    /\ has_key = TRUE
    /\ d_tasks = <<>>
    /\ d_i = 0
    /\ d_pc = "idle"
    /\ binding = "unbound"
    /\ cached = FALSE
    /\ d_exc = [type |-> "", hint |-> FALSE]
    /\ d_outcomes = <<>>
    \* no trigger plugin is in use
    /\ api = "None"
    /\ last_tweet_id = 0
    /\ trigger_data = <<>>
    /\ newest = 0
    /\ n_checks = 0
    /\ returned = "none"
    /\ before = [id |-> 0, data |-> <<>>]
    /\ expected = <<>>
    \* the application: run() is scheduling its tasks, no signal has arrived
    /\ mode = "normal"
    /\ app_pc = "startup"
    /\ task_i = 0
    /\ scheduler = "stopped"
    /\ manager = "running"
    /\ handler = "none"
    /\ sched_called = FALSE
    /\ late = 0
    \* no plugin is being constructed concurrently
    /\ environ = [v \in ProxyVars |-> Unset]
    /\ environ0 = [v \in ProxyVars |-> Unset]
    /\ t_pc = [t \in Threads |-> "idle"]
    /\ t_var = [t \in Threads |-> 0]
    /\ proxy_env_backup = [t \in Threads |-> <<>>]
    /\ t_result = [t \in Threads |-> NoResult]
    /\ client_env = [t \in Threads |-> {}]
    \* no trigger is registered
    /\ loop = [t \in TriggerIds |-> "UNREGISTERED"]
    /\ in_flight = [t \in TriggerIds |-> 0]
    /\ task_running = [t \in TriggerIds |-> 0]
    /\ polls = [t \in TriggerIds |-> 0]
    \* no task invocation is under way
    /\ executor = "execute_task"
    /\ task_config = IdleTask
    /\ pc = "idle"
    /\ notifiers = <<>>
    /\ error_notifiers = <<>>
    /\ idx = 0
    /\ exc = <<>>
    /\ err_from = ""
    /\ final_output = <<>>
    /\ should_notify = TRUE
    /\ status = "running"
    /\ log = <<>>
    /\ stored = InitialStore(IdleTask)
    /\ run = 1
    /\ first = NoFirst
    \* no decorated call is under way
    /\ retry_config = [max_retries |-> 0, backoff_factor |-> 1, on_retry |-> FALSE]
    /\ r_pc = "idle"
    /\ attempt = 0
    /\ caught = NoExc
    /\ last_exception = NoExc
    /\ r_log = <<>>
    /\ r_result = [kind |-> "none", exc |-> NoExc, val |-> ""]

\* One plugin module of any content is on disk; nothing is imported and no
\* loader call was made.
ResolveInit ==
    /\ \E t \in PluginTypes :
         plugin_dirs = [x \in PluginDirNames |->
                          IF x = PLUGIN_DIRS[t] THEN Directory(<<WeatherPy>>) ELSE Absent]
    /\ unit \in Units
    /\ sys_modules = {}
    /\ discover_calls = 0
    /\ discovered = [t \in RequestedTypes |-> {}]
    /\ loaded = NoLoad
    \* no decorated send is in use
    /\ s_plugin = "none"
    /\ s_pc = "off"
    /\ s_attempt = 0
    /\ s_last_exception = "None"
    /\ s_ret = [kind |-> "none", val |-> FALSE, exc |-> "None"]
    /\ s_requests = <<>>
    /\ s_sleeps = <<>>
    /\ s_outcomes = <<>>
    \* no email notifier is in use
    /\ e_config = [kind |-> "absent", items |-> <<>>]
    /\ e_original = [kind |-> "absent", items |-> <<>>]
    /\ env_to_emails = <<>>
    /\ e_pc = "idle"
    /\ self_to_emails = [shared |-> FALSE, items |-> <<>>]
    /\ recipients = <<>>
    \* nothing is being scheduled
    /\ s_mode = "normal"
    /\ tasks = <<>>
    /\ s_i = 0
    /\ task = 0
    /\ execute_func = ""
    /\ callbacks = {}
    /\ jobs = {}
    /\ runs = <<>>
    \* no OpenAI sender is in use
    /\ HAS_OPENAI_SDK = TRUE
    /\ o_config = [use_sdk |-> "absent", api_key |-> TRUE]
    /\ o_pc = "idle"
    /\ use_sdk = "True"
    /\ o_calls = <<>>
    \* no plugin with an optional dependency is being loaded
    /\ installed = TRUE
    /\ has_key = TRUE
    /\ d_tasks = <<>>
    /\ d_i = 0
    /\ d_pc = "idle"
    /\ binding = "unbound"
    /\ cached = FALSE
    /\ d_exc = [type |-> "", hint |-> FALSE]
    /\ d_outcomes = <<>>
    \* no trigger plugin is in use
    /\ api = "None"
    /\ last_tweet_id = 0
    /\ trigger_data = <<>>
    /\ newest = 0
    /\ n_checks = 0
    /\ returned = "none"
    /\ before = [id |-> 0, data |-> <<>>]
    /\ expected = <<>>
    \* the application: run() is scheduling its tasks, no signal has arrived
    /\ mode = "normal"
    /\ app_pc = "startup"
    /\ task_i = 0
    /\ scheduler = "stopped"
    /\ manager = "running"
    /\ handler = "none"
    /\ sched_called = FALSE
    /\ late = 0
    \* no plugin is being constructed concurrently
    /\ environ = [v \in ProxyVars |-> Unset]
    /\ environ0 = [v \in ProxyVars |-> Unset]
    /\ t_pc = [t \in Threads |-> "idle"]
    /\ t_var = [t \in Threads |-> 0]
    /\ proxy_env_backup = [t \in Threads |-> <<>>]
    /\ t_result = [t \in Threads |-> NoResult]
    /\ client_env = [t \in Threads |-> {}]
    \* no trigger is registered
    /\ loop = [t \in TriggerIds |-> "UNREGISTERED"]
    /\ in_flight = [t \in TriggerIds |-> 0]
    /\ task_running = [t \in TriggerIds |-> 0]
    /\ polls = [t \in TriggerIds |-> 0]
    \* no task invocation is under way
    /\ executor = "execute_task"
    /\ task_config = IdleTask
    /\ pc = "idle"
    /\ notifiers = <<>>
    /\ error_notifiers = <<>>
    /\ idx = 0
    /\ exc = <<>>
    /\ err_from = ""
    /\ final_output = <<>>
    /\ should_notify = TRUE
    /\ status = "running"
    /\ log = <<>>
    /\ stored = InitialStore(IdleTask)
    /\ run = 1
    /\ first = NoFirst
    \* no decorated call is under way
    /\ retry_config = [max_retries |-> 0, backoff_factor |-> 1, on_retry |-> FALSE]
    /\ r_pc = "idle"
    /\ attempt = 0
    /\ caught = NoExc
    /\ last_exception = NoExc
    /\ r_log = <<>>
    /\ r_result = [kind |-> "none", exc |-> NoExc, val |-> ""]

\* plugin_loader.py 26-45: one call of discover_plugins
Discover ==
    /\ discover_calls < MaxDiscoverCalls
    /\ UNCHANGED nonLoaderVars
    /\ \E t \in RequestedTypes :
         discovered' = [discovered EXCEPT ![t] = @ \cup
                          {[result |-> DiscoverPlugins(t, plugin_dirs),
                            imported |-> sys_modules]}]
    /\ discover_calls' = discover_calls + 1
    /\ UNCHANGED <<plugin_dirs, unit, sys_modules, loaded>>

\* plugin_loader.py 61, 65-70: the plugin is resolved from the imported module
\* and constructed
Instantiate(t, name) ==
    IF UsesFactory(unit)
    THEN \E c \in {"", "factory raised"} :
           loaded' = Loaded(t, name, IF c = "" THEN "factory" ELSE "", 0, c)
    ELSE LET plugin_class == FindPluginClass(unit.members, 1) IN
           IF plugin_class = 0
           THEN loaded' = Loaded(t, name, "", 0, "No valid plugin class found")
           ELSE \E c \in {"", "constructor raised"} :
                  loaded' = Loaded(t, name, IF c = "" THEN "class" ELSE "",
                                   IF c = "" THEN plugin_class ELSE 0, c)

\* plugin_loader.py 47-80: one call of load_plugin.  importlib.import_module
\* takes the module from sys.modules, or finds its source file, compiles it
\* (writing the byte-code cache directory next to it) and runs it.
LoadPlugin ==
    /\ UNCHANGED nonLoaderVars
    /\ UNCHANGED <<unit, discover_calls, discovered>>
    /\ \E t \in RequestedTypes, name \in LoadNames :
         IF t \notin PluginTypes
         THEN /\ loaded' = Loaded(t, name, "", 0, "Unknown plugin type")
              /\ UNCHANGED <<plugin_dirs, sys_modules>>
         ELSE LET plugin_dir == PLUGIN_DIRS[t]
                  module_path == ModulePath(plugin_dir, name)
                  d == plugin_dirs[plugin_dir]
              IN IF module_path \in sys_modules
                 THEN /\ Instantiate(t, name)
                      /\ UNCHANGED <<plugin_dirs, sys_modules>>
                 ELSE IF ~(d.exists /\ HasEntry(d, SourceFile(name)))
                 THEN /\ loaded' = Loaded(t, name, "", 0, "ImportError")
                      /\ UNCHANGED <<plugin_dirs, sys_modules>>
                 ELSE /\ IF HasEntry(d, PyCache)
                         THEN UNCHANGED plugin_dirs
                         ELSE \E pos \in 1..(Len(d.listing) + 1) :
                                plugin_dirs' = [plugin_dirs EXCEPT ![plugin_dir].listing =
                                                  InsertAt(@, pos, PyCache)]
                      /\ \/ /\ sys_modules' = sys_modules \cup {module_path}
                            /\ Instantiate(t, name)
                         \/ /\ loaded' = Loaded(t, name, "", 0, "ImportError")
                            /\ UNCHANGED sys_modules

LoaderNext ==
    \/ Discover
    \/ LoadPlugin

ResolveNext ==
    \/ LoadPlugin

\* ==================================== concurrent AnthropicSender constructions
\* Two task invocations reach PluginLoader.load_plugin('llm', 'anthropic_sender',
\* ...) at the same time (the scheduler runs jobs on a thread pool, each trigger
\* loop runs on its own).  Each follows anthropic_sender.py 42-62; a thread
\* switch can fall between any two operations on os.environ.
ProxyInit ==
    /\ environ \in Environments
    /\ environ0 = environ
    /\ t_pc = [t \in Threads |-> "idle"]
    /\ t_var = [t \in Threads |-> 0]
    /\ proxy_env_backup = [t \in Threads |-> <<>>]
    /\ t_result = [t \in Threads |-> NoResult]
    /\ client_env = [t \in Threads |-> {}]
    \* no task invocation is under way
    /\ executor = "execute_task"
    /\ task_config = IdleTask
    /\ pc = "idle"
    /\ notifiers = <<>>
    /\ error_notifiers = <<>>
    /\ idx = 0
    /\ exc = <<>>
    /\ err_from = ""
    /\ final_output = <<>>
    /\ should_notify = TRUE
    /\ status = "running"
    /\ log = <<>>
    /\ stored = InitialStore(IdleTask)
    /\ run = 1
    /\ first = NoFirst
    \* no decorated call is under way
    /\ retry_config = [max_retries |-> 0, backoff_factor |-> 1, on_retry |-> FALSE]
    /\ r_pc = "idle"
    /\ attempt = 0
    /\ caught = NoExc
    /\ last_exception = NoExc
    /\ r_log = <<>>
    /\ r_result = [kind |-> "none", exc |-> NoExc, val |-> ""]
    \* the plugin loader is not in use
    /\ plugin_dirs = [d \in PluginDirNames |-> Absent]
    /\ unit = DefaultUnit
    /\ sys_modules = {}
    /\ discover_calls = 0
    /\ discovered = [t \in RequestedTypes |-> {}]
    /\ loaded = NoLoad
    \* no decorated send is in use
    /\ s_plugin = "none"
    /\ s_pc = "off"
    /\ s_attempt = 0
    /\ s_last_exception = "None"
    /\ s_ret = [kind |-> "none", val |-> FALSE, exc |-> "None"]
    /\ s_requests = <<>>
    /\ s_sleeps = <<>>
    /\ s_outcomes = <<>>
    \* no email notifier is in use
    /\ e_config = [kind |-> "absent", items |-> <<>>]
    /\ e_original = [kind |-> "absent", items |-> <<>>]
    /\ env_to_emails = <<>>
    /\ e_pc = "idle"
    /\ self_to_emails = [shared |-> FALSE, items |-> <<>>]
    /\ recipients = <<>>
    \* nothing is being scheduled
    /\ s_mode = "normal"
    /\ tasks = <<>>
    /\ s_i = 0
    /\ task = 0
    /\ execute_func = ""
    /\ callbacks = {}
    /\ jobs = {}
    /\ runs = <<>>
    \* no OpenAI sender is in use
    /\ HAS_OPENAI_SDK = TRUE
    /\ o_config = [use_sdk |-> "absent", api_key |-> TRUE]
    /\ o_pc = "idle"
    /\ use_sdk = "True"
    /\ o_calls = <<>>
    \* no plugin with an optional dependency is being loaded
    /\ installed = TRUE
    /\ has_key = TRUE
    /\ d_tasks = <<>>
    /\ d_i = 0
    /\ d_pc = "idle"
    /\ binding = "unbound"
    /\ cached = FALSE
    /\ d_exc = [type |-> "", hint |-> FALSE]
    /\ d_outcomes = <<>>
    \* no trigger plugin is in use
    /\ api = "None"
    /\ last_tweet_id = 0
    /\ trigger_data = <<>>
    /\ newest = 0
    /\ n_checks = 0
    /\ returned = "none"
    /\ before = [id |-> 0, data |-> <<>>]
    /\ expected = <<>>
    \* the application: run() is scheduling its tasks, no signal has arrived
    /\ mode = "normal"
    /\ app_pc = "startup"
    /\ task_i = 0
    /\ scheduler = "stopped"
    /\ manager = "running"
    /\ handler = "none"
    /\ sched_called = FALSE
    /\ late = 0
    \* no trigger is registered
    /\ loop = [t \in TriggerIds |-> "UNREGISTERED"]
    /\ in_flight = [t \in TriggerIds |-> 0]
    /\ task_running = [t \in TriggerIds |-> 0]
    /\ polls = [t \in TriggerIds |-> 0]

\* anthropic_sender.py 47: the position after the loop body for proxy_vars[i]
AfterVar(i) == IF i < MaxProxyVars THEN "check" ELSE "create"

\* anthropic_sender.py 43-47: proxy_env_backup = {}, the loop starts
Start ==
    \E t \in Threads :
        /\ t_pc[t] = "idle"
        /\ t_pc' = [t_pc EXCEPT ![t] = "check"]
        /\ t_var' = [t_var EXCEPT ![t] = 1]
        /\ UNCHANGED <<environ, environ0, proxy_env_backup, t_result, client_env>>
        /\ UNCHANGED nonProxyVars

\* anthropic_sender.py 48: if var in os.environ
CheckVar ==
    \E t \in Threads :
        /\ t_pc[t] = "check"
        /\ IF InEnviron(environ, t_var[t])
           THEN /\ t_pc' = [t_pc EXCEPT ![t] = "read"]
                /\ UNCHANGED t_var
           ELSE /\ t_pc' = [t_pc EXCEPT ![t] = AfterVar(t_var[t])]
                /\ t_var' = [t_var EXCEPT ![t] = @ + 1]
        /\ UNCHANGED <<environ, environ0, proxy_env_backup, t_result, client_env>>
        /\ UNCHANGED nonProxyVars

\* anthropic_sender.py 49: proxy_env_backup[var] = os.environ[var]; the
\* subscript raises KeyError when the variable is gone, and the loop is not
\* inside the try of line 52: the exception leaves __init__
ReadVar ==
    \E t \in Threads :
        /\ t_pc[t] = "read"
        /\ IF InEnviron(environ, t_var[t])
           THEN /\ proxy_env_backup' =
                     [proxy_env_backup EXCEPT
                        ![t] = Append(@, [var |-> t_var[t], value |-> environ[t_var[t]]])]
                /\ t_pc' = [t_pc EXCEPT ![t] = "del"]
                /\ UNCHANGED t_result
           ELSE /\ t_result' = [t_result EXCEPT ![t] = "KeyError"]
                /\ t_pc' = [t_pc EXCEPT ![t] = "failed"]
                /\ UNCHANGED proxy_env_backup
        /\ UNCHANGED <<environ, environ0, t_var, client_env>>
        /\ UNCHANGED nonProxyVars

\* anthropic_sender.py 50: del os.environ[var], KeyError when it is gone
DeleteVar ==
    \E t \in Threads :
        /\ t_pc[t] = "del"
        /\ IF InEnviron(environ, t_var[t])
           THEN /\ environ' = [environ EXCEPT ![t_var[t]] = Unset]
                /\ t_pc' = [t_pc EXCEPT ![t] = AfterVar(t_var[t])]
                /\ t_var' = [t_var EXCEPT ![t] = @ + 1]
                /\ UNCHANGED t_result
           ELSE /\ t_result' = [t_result EXCEPT ![t] = "KeyError"]
                /\ t_pc' = [t_pc EXCEPT ![t] = "failed"]
                /\ UNCHANGED <<environ, t_var>>
        /\ UNCHANGED <<environ0, proxy_env_backup, client_env>>
        /\ UNCHANGED nonProxyVars

\* anthropic_sender.py 52-59: the client is created, or the constructor of
\* the client raises and the exception is re-raised after the finally clause
CreateClient ==
    \E t \in Threads, r \in {"constructed", "client error"} :
        /\ t_pc[t] = "create"
        /\ t_result' = [t_result EXCEPT ![t] = r]
        /\ client_env' = [client_env EXCEPT
                            ![t] = {v \in ProxyVars : InEnviron(environ, v)}]
        /\ t_pc' = [t_pc EXCEPT
                      ![t] = IF proxy_env_backup[t] = <<>> THEN "done" ELSE "restore"]
        /\ t_var' = [t_var EXCEPT ![t] = 1]
        /\ UNCHANGED <<environ, environ0, proxy_env_backup>>
        /\ UNCHANGED nonProxyVars

\* anthropic_sender.py 60-62: for var, value in proxy_env_backup.items():
\* os.environ[var] = value
RestoreVar ==
    \E t \in Threads :
        /\ t_pc[t] = "restore"
        /\ LET b == proxy_env_backup[t][t_var[t]]
           IN  environ' = [environ EXCEPT ![b.var] = b.value]
        /\ IF t_var[t] = Len(proxy_env_backup[t])
           THEN /\ t_pc' = [t_pc EXCEPT ![t] = "done"]
                /\ UNCHANGED t_var
           ELSE /\ t_var' = [t_var EXCEPT ![t] = @ + 1]
                /\ UNCHANGED t_pc
        /\ UNCHANGED <<environ0, proxy_env_backup, t_result, client_env>>
        /\ UNCHANGED nonProxyVars

ProxyNext ==
    \/ Start
    \/ CheckVar
    \/ ReadVar
    \/ DeleteVar
    \/ CreateClient
    \/ RestoreVar

\* ============================================================ trigger manager
\* core/trigger_system.py: one poll loop per registered trigger id,
\* REGISTERED -> (setup) -> POLLING -> (positive check) -> CALLBACK -> POLLING.
\* The callback is the closure schedule_tasks registers (main.py 330-331).
TriggerInit ==
    /\ loop = [t \in TriggerIds |-> "UNREGISTERED"]
    /\ in_flight = [t \in TriggerIds |-> 0]
    /\ task_running = [t \in TriggerIds |-> 0]
    /\ polls = [t \in TriggerIds |-> 0]
    \* no task invocation is under way
    /\ executor = "execute_task"
    /\ task_config = IdleTask
    /\ pc = "idle"
    /\ notifiers = <<>>
    /\ error_notifiers = <<>>
    /\ idx = 0
    /\ exc = <<>>
    /\ err_from = ""
    /\ final_output = <<>>
    /\ should_notify = TRUE
    /\ status = "running"
    /\ log = <<>>
    /\ stored = InitialStore(IdleTask)
    /\ run = 1
    /\ first = NoFirst
    \* no decorated call is under way
    /\ retry_config = [max_retries |-> 0, backoff_factor |-> 1, on_retry |-> FALSE]
    /\ r_pc = "idle"
    /\ attempt = 0
    /\ caught = NoExc
    /\ last_exception = NoExc
    /\ r_log = <<>>
    /\ r_result = [kind |-> "none", exc |-> NoExc, val |-> ""]
    \* the plugin loader is not in use
    /\ plugin_dirs = [d \in PluginDirNames |-> Absent]
    /\ unit = DefaultUnit
    /\ sys_modules = {}
    /\ discover_calls = 0
    /\ discovered = [t \in RequestedTypes |-> {}]
    /\ loaded = NoLoad
    \* no decorated send is in use
    /\ s_plugin = "none"
    /\ s_pc = "off"
    /\ s_attempt = 0
    /\ s_last_exception = "None"
    /\ s_ret = [kind |-> "none", val |-> FALSE, exc |-> "None"]
    /\ s_requests = <<>>
    /\ s_sleeps = <<>>
    /\ s_outcomes = <<>>
    \* no email notifier is in use
    /\ e_config = [kind |-> "absent", items |-> <<>>]
    /\ e_original = [kind |-> "absent", items |-> <<>>]
    /\ env_to_emails = <<>>
    /\ e_pc = "idle"
    /\ self_to_emails = [shared |-> FALSE, items |-> <<>>]
    /\ recipients = <<>>
    \* nothing is being scheduled
    /\ s_mode = "normal"
    /\ tasks = <<>>
    /\ s_i = 0
    /\ task = 0
    /\ execute_func = ""
    /\ callbacks = {}
    /\ jobs = {}
    /\ runs = <<>>
    \* no OpenAI sender is in use
    /\ HAS_OPENAI_SDK = TRUE
    /\ o_config = [use_sdk |-> "absent", api_key |-> TRUE]
    /\ o_pc = "idle"
    /\ use_sdk = "True"
    /\ o_calls = <<>>
    \* no plugin with an optional dependency is being loaded
    /\ installed = TRUE
    /\ has_key = TRUE
    /\ d_tasks = <<>>
    /\ d_i = 0
    /\ d_pc = "idle"
    /\ binding = "unbound"
    /\ cached = FALSE
    /\ d_exc = [type |-> "", hint |-> FALSE]
    /\ d_outcomes = <<>>
    \* no trigger plugin is in use
    /\ api = "None"
    /\ last_tweet_id = 0
    /\ trigger_data = <<>>
    /\ newest = 0
    /\ n_checks = 0
    /\ returned = "none"
    /\ before = [id |-> 0, data |-> <<>>]
    /\ expected = <<>>
    \* the application: run() is scheduling its tasks, no signal has arrived
    /\ mode = "normal"
    /\ app_pc = "startup"
    /\ task_i = 0
    /\ scheduler = "stopped"
    /\ manager = "running"
    /\ handler = "none"
    /\ sched_called = FALSE
    /\ late = 0
    \* no plugin is being constructed concurrently
    /\ environ = [v \in ProxyVars |-> Unset]
    /\ environ0 = [v \in ProxyVars |-> Unset]
    /\ t_pc = [t \in Threads |-> "idle"]
    /\ t_var = [t \in Threads |-> 0]
    /\ proxy_env_backup = [t \in Threads |-> <<>>]
    /\ t_result = [t \in Threads |-> NoResult]
    /\ client_env = [t \in Threads |-> {}]

\* main.py 333-337: trigger_manager.register_trigger(trigger_id=task_name, ...)
RegisterTrigger ==
    \E t \in TriggerIds :
        /\ app_pc = "startup" /\ handler = "none"
        /\ loop[t] = "UNREGISTERED"
        /\ loop' = [loop EXCEPT ![t] = "REGISTERED"]
        /\ UNCHANGED <<in_flight, task_running, polls>>
        /\ UNCHANGED nonTriggerVars

\* setup(callback), once; the loop of the trigger starts polling
Setup ==
    \E t \in TriggerIds :
        /\ loop[t] = "REGISTERED"
        /\ loop' = [loop EXCEPT ![t] = "POLLING"]
        /\ UNCHANGED <<in_flight, task_running, polls>>
        /\ UNCHANGED nonTriggerVars

\* where a loop goes after a check or a callback: it polls again, or, the
\* manager shut down, it stops and teardown() is called
Resume(m) == IF m = "running" THEN "POLLING" ELSE "TEARDOWN"

\* the loop of trigger t calls check()
CheckBegin(t) ==
    /\ loop[t] = "POLLING"
    /\ polls[t] < MaxPolls
    /\ loop' = [loop EXCEPT ![t] = "CHECK"]
    /\ in_flight' = [in_flight EXCEPT ![t] = @ + 1]
    /\ polls' = [polls EXCEPT ![t] = @ + 1]
    /\ UNCHANGED task_running
    /\ UNCHANGED nonTriggerVars

Poll == \E t \in TriggerIds : CheckBegin(t)

\* check() returns: on true the loop invokes the registered callback, which
\* calls execute_func(task, trigger_data) (main.py 330-331); on false, or
\* when the manager has shut down meanwhile, it invokes nothing
CheckReturn ==
    \E t \in TriggerIds, positive \in BOOLEAN :
        /\ loop[t] = "CHECK"
        /\ in_flight' = [in_flight EXCEPT ![t] = @ - 1]
        /\ IF positive /\ manager = "running"
           THEN /\ loop' = [loop EXCEPT ![t] = "CALLBACK"]
                /\ task_running' = [task_running EXCEPT ![t] = @ + 1]
           ELSE /\ loop' = [loop EXCEPT ![t] = Resume(manager)]
                /\ UNCHANGED task_running
        /\ UNCHANGED polls
        /\ UNCHANGED nonTriggerVars

\* (variant: the callback hands the task to another thread and returns)
AfterCallback_Detached(running) == running
\* main.py 330-331: task_callback calls execute_func directly, so the task has
\* ended when the callback returns
AfterCallback(running) == running - 1

\* the callback returns; the loop resumes polling
CallbackReturn ==
    \E t \in TriggerIds :
        /\ loop[t] = "CALLBACK"
        /\ task_running' = [task_running EXCEPT ![t] = AfterCallback(@)]
        /\ loop' = [loop EXCEPT ![t] = Resume(manager)]
        /\ UNCHANGED <<in_flight, polls>>
        /\ UNCHANGED nonTriggerVars

TriggerNext ==
    \/ RegisterTrigger
    \/ Setup
    \/ Poll
    \/ CheckReturn
    \/ CallbackReturn

\* ================================================================ application
\* main() in test mode runs the tasks one after the other on the main thread;
\* in normal mode run() schedules the tasks and starts the blocking scheduler.
\* _signal_handler (main.py 72-83) runs on the main thread, between two of its
\* instructions, at any time after __init__ has installed it (main.py 40-41).
ShutdownInit ==
    /\ mode \in {"test", "normal"}
    /\ app_pc = IF mode = "test" THEN "loop" ELSE "startup"
    /\ task_i = 0
    /\ scheduler = "stopped"
    /\ manager = "running"
    /\ handler = "none"
    /\ sched_called = FALSE
    /\ late = 0
    \* no task invocation is under way
    /\ executor = "execute_task"
    /\ task_config = IdleTask
    /\ pc = "idle"
    /\ notifiers = <<>>
    /\ error_notifiers = <<>>
    /\ idx = 0
    /\ exc = <<>>
    /\ err_from = ""
    /\ final_output = <<>>
    /\ should_notify = TRUE
    /\ status = "running"
    /\ log = <<>>
    /\ stored = InitialStore(IdleTask)
    /\ run = 1
    /\ first = NoFirst
    \* no decorated call is under way
    /\ retry_config = [max_retries |-> 0, backoff_factor |-> 1, on_retry |-> FALSE]
    /\ r_pc = "idle"
    /\ attempt = 0
    /\ caught = NoExc
    /\ last_exception = NoExc
    /\ r_log = <<>>
    /\ r_result = [kind |-> "none", exc |-> NoExc, val |-> ""]
    \* the plugin loader is not in use
    /\ plugin_dirs = [d \in PluginDirNames |-> Absent]
    /\ unit = DefaultUnit
    /\ sys_modules = {}
    /\ discover_calls = 0
    /\ discovered = [t \in RequestedTypes |-> {}]
    /\ loaded = NoLoad
    \* no decorated send is in use
    /\ s_plugin = "none"
    /\ s_pc = "off"
    /\ s_attempt = 0
    /\ s_last_exception = "None"
    /\ s_ret = [kind |-> "none", val |-> FALSE, exc |-> "None"]
    /\ s_requests = <<>>
    /\ s_sleeps = <<>>
    /\ s_outcomes = <<>>
    \* no email notifier is in use
    /\ e_config = [kind |-> "absent", items |-> <<>>]
    /\ e_original = [kind |-> "absent", items |-> <<>>]
    /\ env_to_emails = <<>>
    /\ e_pc = "idle"
    /\ self_to_emails = [shared |-> FALSE, items |-> <<>>]
    /\ recipients = <<>>
    \* nothing is being scheduled
    /\ s_mode = "normal"
    /\ tasks = <<>>
    /\ s_i = 0
    /\ task = 0
    /\ execute_func = ""
    /\ callbacks = {}
    /\ jobs = {}
    /\ runs = <<>>
    \* no OpenAI sender is in use
    /\ HAS_OPENAI_SDK = TRUE
    /\ o_config = [use_sdk |-> "absent", api_key |-> TRUE]
    /\ o_pc = "idle"
    /\ use_sdk = "True"
    /\ o_calls = <<>>
    \* no plugin with an optional dependency is being loaded
    /\ installed = TRUE
    /\ has_key = TRUE
    /\ d_tasks = <<>>
    /\ d_i = 0
    /\ d_pc = "idle"
    /\ binding = "unbound"
    /\ cached = FALSE
    /\ d_exc = [type |-> "", hint |-> FALSE]
    /\ d_outcomes = <<>>
    \* no trigger plugin is in use
    /\ api = "None"
    /\ last_tweet_id = 0
    /\ trigger_data = <<>>
    /\ newest = 0
    /\ n_checks = 0
    /\ returned = "none"
    /\ before = [id |-> 0, data |-> <<>>]
    /\ expected = <<>>
    \* no plugin is being constructed concurrently
    /\ environ = [v \in ProxyVars |-> Unset]
    /\ environ0 = [v \in ProxyVars |-> Unset]
    /\ t_pc = [t \in Threads |-> "idle"]
    /\ t_var = [t \in Threads |-> 0]
    /\ proxy_env_backup = [t \in Threads |-> <<>>]
    /\ t_result = [t \in Threads |-> NoResult]
    /\ client_env = [t \in Threads |-> {}]
    \* no trigger is registered
    /\ loop = [t \in TriggerIds |-> "UNREGISTERED"]
    /\ in_flight = [t \in TriggerIds |-> 0]
    /\ task_running = [t \in TriggerIds |-> 0]
    /\ polls = [t \in TriggerIds |-> 0]

\* the main thread runs its own code when no handler is running on it
MainRuns == handler \in {"none", "ended"}
\* a task invoked once the handler has ended is a task started after shutdown
Late(h) == IF h = "ended" THEN 1 ELSE 0

\* main.py 447-448: for task in app.config.get('tasks', []): app.execute_task(task)
TestInvoke ==
    /\ mode = "test" /\ app_pc = "loop" /\ MainRuns
    /\ task_i < MaxTasks
    /\ app_pc' = "in_task"
    /\ task_i' = task_i + 1
    /\ late' = late + Late(handler)
    /\ UNCHANGED <<mode, scheduler, manager, handler, sched_called>>
    /\ UNCHANGED nonAppVars

\* execute_task returns (it raises nothing, main.py 152-175)
TestReturn ==
    /\ app_pc = "in_task" /\ MainRuns
    /\ app_pc' = "loop"
    /\ UNCHANGED <<mode, task_i, scheduler, manager, handler, sched_called, late>>
    /\ UNCHANGED nonAppVars

\* main.py 449: the loop over the tasks is over, main() returns
TestDone ==
    /\ mode = "test" /\ app_pc = "loop" /\ MainRuns
    /\ task_i = MaxTasks
    /\ app_pc' = "exited"
    /\ UNCHANGED <<mode, task_i, scheduler, manager, handler, sched_called, late>>
    /\ UNCHANGED nonAppVars

\* main.py 396-400: schedule_tasks() has returned, self.scheduler.start()
StartScheduler ==
    /\ mode = "normal" /\ app_pc = "startup" /\ MainRuns
    /\ app_pc' = "serving"
    /\ scheduler' = "running"
    /\ UNCHANGED <<mode, task_i, manager, handler, sched_called, late>>
    /\ UNCHANGED nonAppVars

\* the running scheduler fires a job: execute_func(task) on a pool thread
JobFire ==
    /\ scheduler = "running"
    /\ task_i < MaxTasks
    /\ task_i' = task_i + 1
    /\ late' = late + Late(handler)
    /\ UNCHANGED <<mode, app_pc, scheduler, manager, handler, sched_called>>
    /\ UNCHANGED nonAppVars

\* main.py 72-75: SIGINT or SIGTERM arrives, self.running = False
Signal ==
    /\ handler = "none"
    /\ app_pc # "exited"
    /\ handler' = "tm_shutdown"
    /\ UNCHANGED <<mode, app_pc, task_i, scheduler, manager, sched_called, late>>
    /\ UNCHANGED nonAppVars

\* main.py 78-79: self.trigger_manager.shutdown().  The manager stops its
\* loops: teardown() is called on every trigger whose loop is between two
\* polls, the others are left to finish their check or callback.
TriggerManagerShutdown ==
    /\ handler = "tm_shutdown"
    /\ manager' = "shutdown"
    /\ loop' = [t \in TriggerIds |->
                 IF loop[t] \in {"REGISTERED", "POLLING"} THEN "TEARDOWN" ELSE loop[t]]
    /\ handler' = "sched_shutdown"
    /\ UNCHANGED <<mode, app_pc, task_i, scheduler, sched_called, late>>
    /\ UNCHANGED <<in_flight, task_running, polls>>
    /\ UNCHANGED nonAppTriggerVars

\* BaseScheduler.shutdown of APScheduler 3 (setup.py: APScheduler>=3.10.4)
\* raises SchedulerNotRunningError unless the scheduler has been started
SchedulerShutdownRaises(state) == state # "running"

\* main.py 82: self.scheduler.shutdown(wait=False)
SchedulerShutdown ==
    /\ handler = "sched_shutdown"
    /\ sched_called' = TRUE
    /\ IF SchedulerShutdownRaises(scheduler)
       THEN /\ handler' = "raised"
            /\ UNCHANGED scheduler
       ELSE /\ handler' = "exit"
            /\ scheduler' = "shutdown"
    /\ UNCHANGED <<mode, app_pc, task_i, manager, late>>
    /\ UNCHANGED nonAppVars

\* main.py 83: sys.exit(0); SystemExit is no Exception, nothing catches it
Exit ==
    /\ handler = "exit"
    /\ handler' = "ended"
    /\ app_pc' = "exited"
    /\ UNCHANGED <<mode, task_i, scheduler, manager, sched_called, late>>
    /\ UNCHANGED nonAppVars

\* Where an Exception raised by the handler lands: it is raised at the
\* instruction the main thread was at.  Inside execute_task that is inside
\* its try (main.py 89-175), whose except Exception turns it into a failed
\* task; anywhere else it reaches main()'s except Exception and sys.exit(1)
\* (main.py 454-456).
Unwound(at) == IF at = "in_task" THEN "loop" ELSE "exited"

\* the exception of scheduler.shutdown leaves _signal_handler
Propagate ==
    /\ handler = "raised"
    /\ handler' = "ended"
    /\ app_pc' = Unwound(app_pc)
    /\ UNCHANGED <<mode, task_i, scheduler, manager, sched_called, late>>
    /\ UNCHANGED nonAppVars

ShutdownNext ==
    \/ TestInvoke
    \/ TestReturn
    \/ TestDone
    \/ StartScheduler
    \/ JobFire
    \/ Signal
    \/ TriggerManagerShutdown
    \/ SchedulerShutdown
    \/ Exit
    \/ Propagate
    \/ RegisterTrigger
    \/ Setup
    \/ Poll
    \/ CheckReturn
    \/ CallbackReturn

\* ============================================================ trigger plugins
\* NewTweetTrigger and UserMentionTrigger (packs/core/twitter/
\* llmsender_pack_trigger/main.py) have the same body, over user_timeline and
\* last_tweet_id, and over mentions_timeline and last_mention_id.  The plugin
\* is followed from the return of setup(): the timeline holds at most one
\* tweet, and setup has recorded its id, or nothing (timeline empty, or the
\* request of lines 44-51 / 134-137 raised).
TweetInit ==
    /\ api = "client"
    /\ newest \in 0..1
    /\ last_tweet_id \in {0, newest}
    /\ trigger_data = <<>>
    /\ n_checks = 0
    /\ returned = "none"
    /\ before = [id |-> 0, data |-> <<>>]
    /\ expected = <<>>
    \* no task invocation is under way
    /\ executor = "execute_task"
    /\ task_config = IdleTask
    /\ pc = "idle"
    /\ notifiers = <<>>
    /\ error_notifiers = <<>>
    /\ idx = 0
    /\ exc = <<>>
    /\ err_from = ""
    /\ final_output = <<>>
    /\ should_notify = TRUE
    /\ status = "running"
    /\ log = <<>>
    /\ stored = InitialStore(IdleTask)
    /\ run = 1
    /\ first = NoFirst
    \* no decorated call is under way
    /\ retry_config = [max_retries |-> 0, backoff_factor |-> 1, on_retry |-> FALSE]
    /\ r_pc = "idle"
    /\ attempt = 0
    /\ caught = NoExc
    /\ last_exception = NoExc
    /\ r_log = <<>>
    /\ r_result = [kind |-> "none", exc |-> NoExc, val |-> ""]
    \* the plugin loader is not in use
    /\ plugin_dirs = [d \in PluginDirNames |-> Absent]
    /\ unit = DefaultUnit
    /\ sys_modules = {}
    /\ discover_calls = 0
    /\ discovered = [t \in RequestedTypes |-> {}]
    /\ loaded = NoLoad
    \* no decorated send is in use
    /\ s_plugin = "none"
    /\ s_pc = "off"
    /\ s_attempt = 0
    /\ s_last_exception = "None"
    /\ s_ret = [kind |-> "none", val |-> FALSE, exc |-> "None"]
    /\ s_requests = <<>>
    /\ s_sleeps = <<>>
    /\ s_outcomes = <<>>
    \* no email notifier is in use
    /\ e_config = [kind |-> "absent", items |-> <<>>]
    /\ e_original = [kind |-> "absent", items |-> <<>>]
    /\ env_to_emails = <<>>
    /\ e_pc = "idle"
    /\ self_to_emails = [shared |-> FALSE, items |-> <<>>]
    /\ recipients = <<>>
    \* nothing is being scheduled
    /\ s_mode = "normal"
    /\ tasks = <<>>
    /\ s_i = 0
    /\ task = 0
    /\ execute_func = ""
    /\ callbacks = {}
    /\ jobs = {}
    /\ runs = <<>>
    \* no OpenAI sender is in use
    /\ HAS_OPENAI_SDK = TRUE
    /\ o_config = [use_sdk |-> "absent", api_key |-> TRUE]
    /\ o_pc = "idle"
    /\ use_sdk = "True"
    /\ o_calls = <<>>
    \* no plugin with an optional dependency is being loaded
    /\ installed = TRUE
    /\ has_key = TRUE
    /\ d_tasks = <<>>
    /\ d_i = 0
    /\ d_pc = "idle"
    /\ binding = "unbound"
    /\ cached = FALSE
    /\ d_exc = [type |-> "", hint |-> FALSE]
    /\ d_outcomes = <<>>
    \* the application: run() is scheduling its tasks, no signal has arrived
    /\ mode = "normal"
    /\ app_pc = "startup"
    /\ task_i = 0
    /\ scheduler = "stopped"
    /\ manager = "running"
    /\ handler = "none"
    /\ sched_called = FALSE
    /\ late = 0
    \* no plugin is being constructed concurrently
    /\ environ = [v \in ProxyVars |-> Unset]
    /\ environ0 = [v \in ProxyVars |-> Unset]
    /\ t_pc = [t \in Threads |-> "idle"]
    /\ t_var = [t \in Threads |-> 0]
    /\ proxy_env_backup = [t \in Threads |-> <<>>]
    /\ t_result = [t \in Threads |-> NoResult]
    /\ client_env = [t \in Threads |-> {}]
    \* no trigger is registered
    /\ loop = [t \in TriggerIds |-> "UNREGISTERED"]
    /\ in_flight = [t \in TriggerIds |-> 0]
    /\ task_running = [t \in TriggerIds |-> 0]
    /\ polls = [t \in TriggerIds |-> 0]

\* api.user_timeline(since_id=...): the tweets newer than since_id, newest first
Timeline(since_id, last) == [k \in 1..(last - since_id) |-> last + 1 - k]

\* getattr(self, '_trigger_data', {})
GetTriggerData == trigger_data

\* the account posts a tweet / is mentioned
PostTweet ==
    /\ newest < MaxTweets
    /\ newest' = newest + 1
    /\ UNCHANGED <<api, last_tweet_id, trigger_data, n_checks, returned, before, expected>>
    /\ UNCHANGED nonTweetVars

\* check(), lines 55-89 / 141-173.  Inside the try: the request, then
\* self.last_tweet_id = tweets[0].id, then the building of _trigger_data, which
\* converts every tweet (_tweet_to_dict reads the attributes of the objects
\* the library returned); any exception of the three lands in the except
\* clause and check returns False.
Check ==
    /\ n_checks < MaxChecks
    /\ n_checks' = n_checks + 1
    /\ before' = [id |-> last_tweet_id, data |-> trigger_data]
    /\ UNCHANGED <<api, newest>>
    /\ UNCHANGED nonTweetVars
    /\ IF api = "None"
       THEN /\ returned' = "false"
            /\ UNCHANGED <<last_tweet_id, trigger_data, expected>>
       ELSE \E request \in {"ok", "raise"} :
              LET tweets == Timeline(last_tweet_id, newest) IN
              IF request = "raise" \/ tweets = <<>>
              THEN /\ returned' = "false"
                   /\ UNCHANGED <<last_tweet_id, trigger_data, expected>>
              ELSE /\ last_tweet_id' = tweets[1]
                   /\ \E convert \in {"ok", "raise"} :
                        IF convert = "ok"
                        THEN /\ trigger_data' = tweets
                             /\ expected' = tweets
                             /\ returned' = "true"
                        ELSE /\ returned' = "false"
                             /\ UNCHANGED <<trigger_data, expected>>

\* teardown(), lines 91-93 / 175-177
Teardown ==
    /\ api = "client"
    /\ api' = "None"
    /\ UNCHANGED <<last_tweet_id, trigger_data, newest, n_checks, returned, before, expected>>
    /\ UNCHANGED nonTweetVars

TweetNext ==
    \/ PostTweet
    \/ Check
    \/ Teardown

\* ======================================================= optional dependency
\* Up to MaxTasks tasks run one after the other; each loads its llm plugin
\* with PluginLoader.load_plugin('llm', name, config).  For anthropic_sender
\* the import of the module is followed through its body
\* (anthropic_sender.py 1-102), then the factory constructs AnthropicSender.
LLMPlugins == {"anthropic_sender", "openai_sender"}
NoError == [type |-> "", hint |-> FALSE]
Error(type, hint) == [type |-> type, hint |-> hint]

\* plugin_loader.py 55: importlib.import_module runs the module body unless
\* the module is in sys.modules
FirstStep(plugin, in_sys_modules) ==
    IF plugin = "anthropic_sender"
    THEN (IF in_sys_modules THEN "init" ELSE "import")
    ELSE "other"

DependencyInit ==
    /\ installed \in BOOLEAN
    /\ has_key \in BOOLEAN
    /\ d_tasks \in [1..MaxTasks -> LLMPlugins]
    /\ d_i = 1
    /\ d_pc = FirstStep(d_tasks[1], FALSE)
    /\ binding = "unbound"
    /\ cached = FALSE
    /\ d_exc = NoError
    /\ d_outcomes = <<>>
    \* no task invocation is under way
    /\ executor = "execute_task"
    /\ task_config = IdleTask
    /\ pc = "idle"
    /\ notifiers = <<>>
    /\ error_notifiers = <<>>
    /\ idx = 0
    /\ exc = <<>>
    /\ err_from = ""
    /\ final_output = <<>>
    /\ should_notify = TRUE
    /\ status = "running"
    /\ log = <<>>
    /\ stored = InitialStore(IdleTask)
    /\ run = 1
    /\ first = NoFirst
    \* no decorated call is under way
    /\ retry_config = [max_retries |-> 0, backoff_factor |-> 1, on_retry |-> FALSE]
    /\ r_pc = "idle"
    /\ attempt = 0
    /\ caught = NoExc
    /\ last_exception = NoExc
    /\ r_log = <<>>
    /\ r_result = [kind |-> "none", exc |-> NoExc, val |-> ""]
    \* the plugin loader is not in use
    /\ plugin_dirs = [d \in PluginDirNames |-> Absent]
    /\ unit = DefaultUnit
    /\ sys_modules = {}
    /\ discover_calls = 0
    /\ discovered = [t \in RequestedTypes |-> {}]
    /\ loaded = NoLoad
    \* no decorated send is in use
    /\ s_plugin = "none"
    /\ s_pc = "off"
    /\ s_attempt = 0
    /\ s_last_exception = "None"
    /\ s_ret = [kind |-> "none", val |-> FALSE, exc |-> "None"]
    /\ s_requests = <<>>
    /\ s_sleeps = <<>>
    /\ s_outcomes = <<>>
    \* no email notifier is in use
    /\ e_config = [kind |-> "absent", items |-> <<>>]
    /\ e_original = [kind |-> "absent", items |-> <<>>]
    /\ env_to_emails = <<>>
    /\ e_pc = "idle"
    /\ self_to_emails = [shared |-> FALSE, items |-> <<>>]
    /\ recipients = <<>>
    \* nothing is being scheduled
    /\ s_mode = "normal"
    /\ tasks = <<>>
    /\ s_i = 0
    /\ task = 0
    /\ execute_func = ""
    /\ callbacks = {}
    /\ jobs = {}
    /\ runs = <<>>
    \* no OpenAI sender is in use
    /\ HAS_OPENAI_SDK = TRUE
    /\ o_config = [use_sdk |-> "absent", api_key |-> TRUE]
    /\ o_pc = "idle"
    /\ use_sdk = "True"
    /\ o_calls = <<>>
    \* no trigger plugin is in use
    /\ api = "None"
    /\ last_tweet_id = 0
    /\ trigger_data = <<>>
    /\ newest = 0
    /\ n_checks = 0
    /\ returned = "none"
    /\ before = [id |-> 0, data |-> <<>>]
    /\ expected = <<>>
    \* the application: run() is scheduling its tasks, no signal has arrived
    /\ mode = "normal"
    /\ app_pc = "startup"
    /\ task_i = 0
    /\ scheduler = "stopped"
    /\ manager = "running"
    /\ handler = "none"
    /\ sched_called = FALSE
    /\ late = 0
    \* no plugin is being constructed concurrently
    /\ environ = [v \in ProxyVars |-> Unset]
    /\ environ0 = [v \in ProxyVars |-> Unset]
    /\ t_pc = [t \in Threads |-> "idle"]
    /\ t_var = [t \in Threads |-> 0]
    /\ proxy_env_backup = [t \in Threads |-> <<>>]
    /\ t_result = [t \in Threads |-> NoResult]
    /\ client_env = [t \in Threads |-> {}]
    \* no trigger is registered
    /\ loop = [t \in TriggerIds |-> "UNREGISTERED"]
    /\ in_flight = [t \in TriggerIds |-> 0]
    /\ task_running = [t \in TriggerIds |-> 0]
    /\ polls = [t \in TriggerIds |-> 0]

\* anthropic_sender.py 6-9: try: import anthropic / except ImportError:
\* anthropic = None
ImportAnthropic ==
    /\ d_pc = "import"
    /\ binding' = IF installed THEN "module" ELSE "None"
    /\ d_pc' = "class_body"
    /\ UNCHANGED <<installed, has_key, d_tasks, d_i, cached, d_exc, d_outcomes>>
    /\ UNCHANGED nonDepVars

\* anthropic_sender.py 14, 64: the class body is executed at import; the
\* decorator line @retry_with_backoff(max_retries=3,
\* exceptions=(anthropic.APIError,)) reads the attribute APIError of the name
\* anthropic.  An exception leaves import_module, and the module does not
\* stay in sys.modules.
ClassBody ==
    /\ d_pc = "class_body"
    /\ IF binding = "None"
       THEN /\ d_exc' = Error("AttributeError", FALSE)
            /\ d_pc' = "raised"
            /\ UNCHANGED cached
       ELSE /\ cached' = TRUE
            /\ d_pc' = "init"
            /\ UNCHANGED d_exc
    /\ UNCHANGED <<installed, has_key, d_tasks, d_i, binding, d_outcomes>>
    /\ UNCHANGED nonDepVars

\* plugin_loader.py 58-60 and anthropic_sender.py 17-62: factory(config)
\* constructs AnthropicSender: ImportError with the install hint when
\* anthropic is None (27-28), ValueError without an API key (35-36), then the
\* client is created, or its constructor raises (52-59)
Construct ==
    /\ d_pc = "init"
    /\ IF binding = "None"
       THEN d_exc' = Error("ImportError", TRUE) /\ d_pc' = "raised"
       ELSE IF ~has_key
       THEN d_exc' = Error("ValueError", FALSE) /\ d_pc' = "raised"
       ELSE \/ d_exc' = NoError /\ d_pc' = "loaded"
            \/ d_exc' = Error("Exception", FALSE) /\ d_pc' = "raised"
    /\ UNCHANGED <<installed, has_key, d_tasks, d_i, binding, cached, d_outcomes>>
    /\ UNCHANGED nonDepVars

\* a plugin that does not import anthropic loads, or fails for its own reasons
LoadOther ==
    /\ d_pc = "other"
    /\ \/ d_exc' = NoError /\ d_pc' = "loaded"
       \/ d_exc' = Error("ValueError", FALSE) /\ d_pc' = "raised"
    /\ UNCHANGED <<installed, has_key, d_tasks, d_i, binding, cached, d_outcomes>>
    /\ UNCHANGED nonDepVars

\* main.py 156-158 / 296-298: the executor's except Exception logs the
\* exception and the task ends failed; with the plugin loaded the task goes
\* on.  The next task starts.
TaskEnd ==
    /\ d_pc \in {"loaded", "raised"}
    /\ d_outcomes' = Append(d_outcomes,
                            [plugin |-> d_tasks[d_i],
                             status |-> IF d_pc = "raised" THEN "failed" ELSE "completed",
                             exc |-> d_exc])
    /\ d_exc' = NoError
    /\ d_i' = d_i + 1
    /\ d_pc' = IF d_i < Len(d_tasks) THEN FirstStep(d_tasks[d_i + 1], cached) ELSE "done"
    /\ UNCHANGED <<installed, has_key, d_tasks, binding, cached>>
    /\ UNCHANGED nonDepVars

DependencyNext ==
    \/ ImportAnthropic
    \/ ClassBody
    \/ Construct
    \/ LoadOther
    \/ TaskEnd

\* ===================================================== enhanced OpenAI sender
\* openai_sender_enhanced.py.  A configured value is one of the YAML values
\* true, false and null, or the key is absent.
ConfiguredValues == {"absent", "True", "False", "None"}
\* the truth value Python gives a value
Truthy(v) == v = "True"
\* config.get('use_sdk', True)
Get(value, default) == IF value = "absent" THEN default ELSE value
\* a and b: a when a is falsy, else b
And(a, b) == IF Truthy(a) THEN b ELSE a
PyBool(b) == IF b THEN "True" ELSE "False"

\* (variant: the configuration alone decides)
UseSdk_ConfigOnly(config, has_sdk) == Get(config.use_sdk, "True")
\* openai_sender_enhanced.py 29:
\* self.use_sdk = config.get('use_sdk', True) and HAS_OPENAI_SDK
UseSdk(config, has_sdk) == And(Get(config.use_sdk, "True"), PyBool(has_sdk))

\* openai_sender_enhanced.py 10-16 have run
OpenAIInit ==
    /\ HAS_OPENAI_SDK \in BOOLEAN
    /\ o_config \in [use_sdk : ConfiguredValues, api_key : BOOLEAN]
    /\ o_pc = "new"
    /\ use_sdk = "True"
    /\ o_calls = <<>>
    \* no task invocation is under way
    /\ executor = "execute_task"
    /\ task_config = IdleTask
    /\ pc = "idle"
    /\ notifiers = <<>>
    /\ error_notifiers = <<>>
    /\ idx = 0
    /\ exc = <<>>
    /\ err_from = ""
    /\ final_output = <<>>
    /\ should_notify = TRUE
    /\ status = "running"
    /\ log = <<>>
    /\ stored = InitialStore(IdleTask)
    /\ run = 1
    /\ first = NoFirst
    \* no decorated call is under way
    /\ retry_config = [max_retries |-> 0, backoff_factor |-> 1, on_retry |-> FALSE]
    /\ r_pc = "idle"
    /\ attempt = 0
    /\ caught = NoExc
    /\ last_exception = NoExc
    /\ r_log = <<>>
    /\ r_result = [kind |-> "none", exc |-> NoExc, val |-> ""]
    \* the plugin loader is not in use
    /\ plugin_dirs = [d \in PluginDirNames |-> Absent]
    /\ unit = DefaultUnit
    /\ sys_modules = {}
    /\ discover_calls = 0
    /\ discovered = [t \in RequestedTypes |-> {}]
    /\ loaded = NoLoad
    \* no decorated send is in use
    /\ s_plugin = "none"
    /\ s_pc = "off"
    /\ s_attempt = 0
    /\ s_last_exception = "None"
    /\ s_ret = [kind |-> "none", val |-> FALSE, exc |-> "None"]
    /\ s_requests = <<>>
    /\ s_sleeps = <<>>
    /\ s_outcomes = <<>>
    \* no email notifier is in use
    /\ e_config = [kind |-> "absent", items |-> <<>>]
    /\ e_original = [kind |-> "absent", items |-> <<>>]
    /\ env_to_emails = <<>>
    /\ e_pc = "idle"
    /\ self_to_emails = [shared |-> FALSE, items |-> <<>>]
    /\ recipients = <<>>
    \* nothing is being scheduled
    /\ s_mode = "normal"
    /\ tasks = <<>>
    /\ s_i = 0
    /\ task = 0
    /\ execute_func = ""
    /\ callbacks = {}
    /\ jobs = {}
    /\ runs = <<>>
    \* no plugin with an optional dependency is being loaded
    /\ installed = TRUE
    /\ has_key = TRUE
    /\ d_tasks = <<>>
    /\ d_i = 0
    /\ d_pc = "idle"
    /\ binding = "unbound"
    /\ cached = FALSE
    /\ d_exc = [type |-> "", hint |-> FALSE]
    /\ d_outcomes = <<>>
    \* no trigger plugin is in use
    /\ api = "None"
    /\ last_tweet_id = 0
    /\ trigger_data = <<>>
    /\ newest = 0
    /\ n_checks = 0
    /\ returned = "none"
    /\ before = [id |-> 0, data |-> <<>>]
    /\ expected = <<>>
    \* the application: run() is scheduling its tasks, no signal has arrived
    /\ mode = "normal"
    /\ app_pc = "startup"
    /\ task_i = 0
    /\ scheduler = "stopped"
    /\ manager = "running"
    /\ handler = "none"
    /\ sched_called = FALSE
    /\ late = 0
    \* no plugin is being constructed concurrently
    /\ environ = [v \in ProxyVars |-> Unset]
    /\ environ0 = [v \in ProxyVars |-> Unset]
    /\ t_pc = [t \in Threads |-> "idle"]
    /\ t_var = [t \in Threads |-> 0]
    /\ proxy_env_backup = [t \in Threads |-> <<>>]
    /\ t_result = [t \in Threads |-> NoResult]
    /\ client_env = [t \in Threads |-> {}]
    \* no trigger is registered
    /\ loop = [t \in TriggerIds |-> "UNREGISTERED"]
    /\ in_flight = [t \in TriggerIds |-> 0]
    /\ task_running = [t \in TriggerIds |-> 0]
    /\ polls = [t \in TriggerIds |-> 0]

\* openai_sender_enhanced.py 22-41: __init__; without the SDK a warning is
\* logged, nothing is raised
ConstructOpenAI ==
    /\ o_pc = "new"
    /\ use_sdk' = UseSdk(o_config, HAS_OPENAI_SDK)
    /\ o_pc' = IF o_config.api_key THEN "constructed" ELSE "failed"
    /\ UNCHANGED <<HAS_OPENAI_SDK, o_config, o_calls>>
    /\ UNCHANGED nonOpenaiVars

\* openai_sender_enhanced.py 43-52: summarize takes _summarize_with_sdk or
\* _summarize_with_requests, which returns or raises
SummarizeOpenAI ==
    /\ o_pc = "constructed"
    /\ Len(o_calls) < MaxSummaries
    /\ \E res \in {"ok", "RequestException", "Exception"} :
         o_calls' = Append(o_calls,
                           [path |-> IF Truthy(use_sdk) THEN "sdk" ELSE "requests",
                            res |-> res])
    /\ UNCHANGED <<HAS_OPENAI_SDK, o_config, o_pc, use_sdk>>
    /\ UNCHANGED nonOpenaiVars

OpenAINext ==
    \/ ConstructOpenAI
    \/ SummarizeOpenAI

\* ================================================================ scheduling
\* schedule_tasks (main.py 312-384) and the test mode of main() (444-449).
\* A task is "trigger" (it has a 'trigger' key whose type names a pack
\* trigger), "pack" (it has a 'pack' or 'actions' key and a schedule) or
\* "legacy" (none of the three keys, and a schedule).  A task is named by its
\* position in the list; the names are distinct.
TaskKinds == {"legacy", "pack", "trigger"}
TaskLists == UNION {[1..n -> TaskKinds] : n \in 1..MaxTasks}

\* main.py 320: 'pack' in task or 'actions' in task or 'trigger' in task
IsPackTask(kind) == kind \in {"pack", "trigger"}
\* main.py 321: self.execute_pack_task if is_pack_task else self.execute_task
ExecuteFunc(kind) == IF IsPackTask(kind) THEN "execute_pack_task" ELSE "execute_task"
\* main.py 448: app.execute_task(task)
TestExecutor(kind) == "execute_task"

Run(via, id, t, func, data) ==
    [via |-> via, id |-> id, task |-> t, executor |-> func, data |-> data]

ScheduleInit ==
    /\ s_mode \in {"test", "normal"}
    /\ tasks \in TaskLists
    /\ s_i = 0
    /\ task = 0
    /\ execute_func = ""
    /\ callbacks = {}
    /\ jobs = {}
    /\ runs = <<>>
    \* no task invocation is under way
    /\ executor = "execute_task"
    /\ task_config = IdleTask
    /\ pc = "idle"
    /\ notifiers = <<>>
    /\ error_notifiers = <<>>
    /\ idx = 0
    /\ exc = <<>>
    /\ err_from = ""
    /\ final_output = <<>>
    /\ should_notify = TRUE
    /\ status = "running"
    /\ log = <<>>
    /\ stored = InitialStore(IdleTask)
    /\ run = 1
    /\ first = NoFirst
    \* no decorated call is under way
    /\ retry_config = [max_retries |-> 0, backoff_factor |-> 1, on_retry |-> FALSE]
    /\ r_pc = "idle"
    /\ attempt = 0
    /\ caught = NoExc
    /\ last_exception = NoExc
    /\ r_log = <<>>
    /\ r_result = [kind |-> "none", exc |-> NoExc, val |-> ""]
    \* the plugin loader is not in use
    /\ plugin_dirs = [d \in PluginDirNames |-> Absent]
    /\ unit = DefaultUnit
    /\ sys_modules = {}
    /\ discover_calls = 0
    /\ discovered = [t \in RequestedTypes |-> {}]
    /\ loaded = NoLoad
    \* no decorated send is in use
    /\ s_plugin = "none"
    /\ s_pc = "off"
    /\ s_attempt = 0
    /\ s_last_exception = "None"
    /\ s_ret = [kind |-> "none", val |-> FALSE, exc |-> "None"]
    /\ s_requests = <<>>
    /\ s_sleeps = <<>>
    /\ s_outcomes = <<>>
    \* no email notifier is in use
    /\ e_config = [kind |-> "absent", items |-> <<>>]
    /\ e_original = [kind |-> "absent", items |-> <<>>]
    /\ env_to_emails = <<>>
    /\ e_pc = "idle"
    /\ self_to_emails = [shared |-> FALSE, items |-> <<>>]
    /\ recipients = <<>>
    \* no OpenAI sender is in use
    /\ HAS_OPENAI_SDK = TRUE
    /\ o_config = [use_sdk |-> "absent", api_key |-> TRUE]
    /\ o_pc = "idle"
    /\ use_sdk = "True"
    /\ o_calls = <<>>
    \* no plugin with an optional dependency is being loaded
    /\ installed = TRUE
    /\ has_key = TRUE
    /\ d_tasks = <<>>
    /\ d_i = 0
    /\ d_pc = "idle"
    /\ binding = "unbound"
    /\ cached = FALSE
    /\ d_exc = [type |-> "", hint |-> FALSE]
    /\ d_outcomes = <<>>
    \* no trigger plugin is in use
    /\ api = "None"
    /\ last_tweet_id = 0
    /\ trigger_data = <<>>
    /\ newest = 0
    /\ n_checks = 0
    /\ returned = "none"
    /\ before = [id |-> 0, data |-> <<>>]
    /\ expected = <<>>
    \* the application: run() is scheduling its tasks, no signal has arrived
    /\ mode = "normal"
    /\ app_pc = "startup"
    /\ task_i = 0
    /\ scheduler = "stopped"
    /\ manager = "running"
    /\ handler = "none"
    /\ sched_called = FALSE
    /\ late = 0
    \* no plugin is being constructed concurrently
    /\ environ = [v \in ProxyVars |-> Unset]
    /\ environ0 = [v \in ProxyVars |-> Unset]
    /\ t_pc = [t \in Threads |-> "idle"]
    /\ t_var = [t \in Threads |-> 0]
    /\ proxy_env_backup = [t \in Threads |-> <<>>]
    /\ t_result = [t \in Threads |-> NoResult]
    /\ client_env = [t \in Threads |-> {}]
    \* no trigger is registered
    /\ loop = [t \in TriggerIds |-> "UNREGISTERED"]
    /\ in_flight = [t \in TriggerIds |-> 0]
    /\ task_running = [t \in TriggerIds |-> 0]
    /\ polls = [t \in TriggerIds |-> 0]

\* main.py 316-384: one pass of the for loop.  task and execute_func are
\* assigned; a trigger task registers the closure task_callback under its
\* name, any other task is added to the scheduler with func=execute_func and
\* args=[task], both evaluated now.
ScheduleTask ==
    /\ s_mode = "normal"
    /\ s_i < Len(tasks)
    /\ s_i' = s_i + 1
    /\ task' = s_i + 1
    /\ execute_func' = ExecuteFunc(tasks[s_i + 1])
    /\ IF tasks[s_i + 1] = "trigger"
       THEN /\ callbacks' = callbacks \cup {s_i + 1}
            /\ UNCHANGED jobs
       ELSE /\ jobs' = jobs \cup {[id |-> s_i + 1, func |-> execute_func', args |-> task']}
            /\ UNCHANGED callbacks
    /\ UNCHANGED <<s_mode, tasks, runs>>
    /\ UNCHANGED nonSchedVars

\* main.py 330-331: the trigger registered under id had a positive check and
\* the manager calls its callback with the trigger's data:
\* execute_func(task, trigger_data).  task and execute_func are free
\* variables of the closure: they are looked up in the frame of
\* schedule_tasks when the callback runs.
FireCallback ==
    /\ Len(runs) < MaxRuns
    /\ \E id \in callbacks :
         runs' = Append(runs, Run("trigger", id, task, execute_func, id))
    /\ UNCHANGED <<s_mode, tasks, s_i, task, execute_func, callbacks, jobs>>
    /\ UNCHANGED nonSchedVars

\* the scheduler runs a job: job.func(*job.args)
RunJob ==
    /\ Len(runs) < MaxRuns
    /\ s_i = Len(tasks)
    /\ \E job \in jobs :
         runs' = Append(runs, Run("job", job.id, job.args, job.func, 0))
    /\ UNCHANGED <<s_mode, tasks, s_i, task, execute_func, callbacks, jobs>>
    /\ UNCHANGED nonSchedVars

\* main.py 447-448: test mode runs the next task of the list
TestRun ==
    /\ s_mode = "test"
    /\ s_i < Len(tasks)
    /\ Len(runs) < MaxRuns
    /\ s_i' = s_i + 1
    /\ runs' = Append(runs, Run("test", s_i + 1, s_i + 1, TestExecutor(tasks[s_i + 1]), 0))
    /\ UNCHANGED <<s_mode, tasks, task, execute_func, callbacks, jobs>>
    /\ UNCHANGED nonSchedVars

ScheduleNext ==
    \/ ScheduleTask
    \/ FireCallback
    \/ RunJob
    \/ TestRun

\* ================================================== email notifier recipients
\* message_notice/email.py 28-51 as main.py 129-141 invokes it: every invocation
\* of a task copies the notifier's configuration entry with dict.copy(), which
\* copies the dict and shares the values, and builds an EmailNotifier from the
\* copy. A list is modelled by its items and by whether it is the list object
\* the configuration holds.

\* the 'to_emails' entry of a configuration: a list, a comma separated string,
\* or no entry
ConfiguredToEmails ==
    {[kind |-> "absent", items |-> <<>>]} \cup
    {[kind |-> k, items |-> i] : k \in {"list", "str"}, i \in {<<"a">>, <<"a", "b">>}}

\* the addresses of EMAIL_TO_EMAILS; <<>> when the variable is not set
EnvToEmails == {<<>>, <<"e">>, <<"a">>, <<"e", "f">>}

\* email.py 30-34: config.get('to_emails', []) is the configuration's own list
\* when the entry is a list; a string is split into a new list and a missing
\* entry gives the new list of the default
ToEmails(config) ==
    [shared |-> config.kind = "list", items |-> config.items]

\* email.py 37-40: self.to_emails.extend(env_emails) when EMAIL_TO_EMAILS is set
Extended(items, env) == IF env # <<>> THEN items \o env ELSE items

\* what self.to_emails holds: the configuration's list when it is that object
Recipients(self, config) == IF self.shared THEN config.items ELSE self.items

EmailInit ==
    /\ e_config \in ConfiguredToEmails
    /\ e_original = e_config
    /\ env_to_emails \in EnvToEmails
    /\ e_pc = "load"
    /\ self_to_emails = [shared |-> FALSE, items |-> <<>>]
    /\ recipients = <<>>
    \* no task invocation is under way
    /\ executor = "execute_task"
    /\ task_config = IdleTask
    /\ pc = "idle"
    /\ notifiers = <<>>
    /\ error_notifiers = <<>>
    /\ idx = 0
    /\ exc = <<>>
    /\ err_from = ""
    /\ final_output = <<>>
    /\ should_notify = TRUE
    /\ status = "running"
    /\ log = <<>>
    /\ stored = InitialStore(IdleTask)
    /\ run = 1
    /\ first = NoFirst
    \* no decorated call is under way
    /\ retry_config = [max_retries |-> 0, backoff_factor |-> 1, on_retry |-> FALSE]
    /\ r_pc = "idle"
    /\ attempt = 0
    /\ caught = NoExc
    /\ last_exception = NoExc
    /\ r_log = <<>>
    /\ r_result = [kind |-> "none", exc |-> NoExc, val |-> ""]
    \* the plugin loader is not in use
    /\ plugin_dirs = [d \in PluginDirNames |-> Absent]
    /\ unit = DefaultUnit
    /\ sys_modules = {}
    /\ discover_calls = 0
    /\ discovered = [t \in RequestedTypes |-> {}]
    /\ loaded = NoLoad
    \* no decorated send is in use
    /\ s_plugin = "none"
    /\ s_pc = "off"
    /\ s_attempt = 0
    /\ s_last_exception = "None"
    /\ s_ret = [kind |-> "none", val |-> FALSE, exc |-> "None"]
    /\ s_requests = <<>>
    /\ s_sleeps = <<>>
    /\ s_outcomes = <<>>
    \* nothing is being scheduled
    /\ s_mode = "normal"
    /\ tasks = <<>>
    /\ s_i = 0
    /\ task = 0
    /\ execute_func = ""
    /\ callbacks = {}
    /\ jobs = {}
    /\ runs = <<>>
    \* no OpenAI sender is in use
    /\ HAS_OPENAI_SDK = TRUE
    /\ o_config = [use_sdk |-> "absent", api_key |-> TRUE]
    /\ o_pc = "idle"
    /\ use_sdk = "True"
    /\ o_calls = <<>>
    \* no plugin with an optional dependency is being loaded
    /\ installed = TRUE
    /\ has_key = TRUE
    /\ d_tasks = <<>>
    /\ d_i = 0
    /\ d_pc = "idle"
    /\ binding = "unbound"
    /\ cached = FALSE
    /\ d_exc = [type |-> "", hint |-> FALSE]
    /\ d_outcomes = <<>>
    \* no trigger plugin is in use
    /\ api = "None"
    /\ last_tweet_id = 0
    /\ trigger_data = <<>>
    /\ newest = 0
    /\ n_checks = 0
    /\ returned = "none"
    /\ before = [id |-> 0, data |-> <<>>]
    /\ expected = <<>>
    \* the application: run() is scheduling its tasks, no signal has arrived
    /\ mode = "normal"
    /\ app_pc = "startup"
    /\ task_i = 0
    /\ scheduler = "stopped"
    /\ manager = "running"
    /\ handler = "none"
    /\ sched_called = FALSE
    /\ late = 0
    \* no plugin is being constructed concurrently
    /\ environ = [v \in ProxyVars |-> Unset]
    /\ environ0 = [v \in ProxyVars |-> Unset]
    /\ t_pc = [t \in Threads |-> "idle"]
    /\ t_var = [t \in Threads |-> 0]
    /\ proxy_env_backup = [t \in Threads |-> <<>>]
    /\ t_result = [t \in Threads |-> NoResult]
    /\ client_env = [t \in Threads |-> {}]
    \* no trigger is registered
    /\ loop = [t \in TriggerIds |-> "UNREGISTERED"]
    /\ in_flight = [t \in TriggerIds |-> 0]
    /\ task_running = [t \in TriggerIds |-> 0]
    /\ polls = [t \in TriggerIds |-> 0]

\* main.py 131, 139-141 and email.py 30-51: one invocation copies the entry and
\* constructs the notifier; extend() acts on the list object self.to_emails
\* names, and an empty list raises ValueError, which ends the invocation's use
\* of this notifier (main.py 150-152)
ConstructEmail ==
    /\ e_pc = "load"
    /\ Len(recipients) < MaxInvocations
    /\ LET got == ToEmails(e_config)
           items == Extended(got.items, env_to_emails)
       IN  /\ e_config' = IF got.shared THEN [e_config EXCEPT !.items = items]
                          ELSE e_config
           /\ IF items = <<>>
              THEN /\ recipients' = Append(recipients, [sent |-> FALSE, to |-> <<>>])
                   /\ UNCHANGED <<e_pc, self_to_emails>>
              ELSE /\ self_to_emails' = [shared |-> got.shared, items |-> items]
                   /\ e_pc' = "send"
                   /\ UNCHANGED recipients
    /\ UNCHANGED <<e_original, env_to_emails>>
    /\ UNCHANGED nonEmailVars

\* email.py 60, 101: msg['To'] and send_message(msg, to_addrs=self.to_emails)
SendEmail ==
    /\ e_pc = "send"
    /\ recipients' = Append(recipients,
           [sent |-> TRUE, to |-> Recipients(self_to_emails, e_config)])
    /\ e_pc' = "load"
    /\ UNCHANGED <<e_config, e_original, env_to_emails, self_to_emails>>
    /\ UNCHANGED nonEmailVars

EmailNext == ConstructEmail \/ SendEmail

\* ================================================== decorated notifier send
\* message_notice/bark.py 26-65 and message_notice/telegram.py 25-60: send is
\* decorated with retry_with_backoff(max_retries=3,
\* exceptions=(requests.RequestException,)), so a call of notifier.send
\* (main.py 144) runs the wrapper of core/utils.py 70-95 around the body of send.

\* bark.py 26, telegram.py 25: max_retries=3
SendMaxRetries == 3
\* utils.py 63: backoff_factor defaults to 2.0
SendBackoffFactor == 2
\* bark.py 26, telegram.py 25: exceptions=(requests.RequestException,)
SendRetryable == {"RequestException"}

\* what one HTTP request does: an answer the API reports as delivered, an answer
\* the API reports as an error, an error status (raise_for_status), or no
\* answer (requests.post raises ConnectionError or Timeout)
HttpOutcomes == {"success", "api_error", "http_error", "transport_error"}
\* requests.HTTPError, ConnectionError and Timeout derive from RequestException
Raised(outcome) ==
    IF outcome \in {"http_error", "transport_error"} THEN "RequestException" ELSE "None"

Returning(v) == [kind |-> "return", val |-> v, exc |-> "None"]
Raising(e) == [kind |-> "raise", val |-> FALSE, exc |-> e]

\* bark.py 29-65: the body of send is one try; except requests.RequestException
\* logs and returns False (63-65); otherwise code == 200 decides (56-61)
BarkSend(outcome) ==
    IF Raised(outcome) = "RequestException" THEN Returning(FALSE)
    ELSE Returning(outcome = "success")

\* telegram.py 28-60: the same shape, result.get('ok') deciding (52-57) and
\* except requests.RequestException returning False (58-60)
TelegramSend(outcome) ==
    IF Raised(outcome) = "RequestException" THEN Returning(FALSE)
    ELSE Returning(outcome = "success")

SendOf(plugin, outcome) ==
    IF plugin = "bark" THEN BarkSend(outcome) ELSE TelegramSend(outcome)

\* what the executor gets from one call of notifier.send
SendOutcome(plugin, ret, sleeps) ==
    [plugin |-> plugin, kind |-> ret.kind, val |-> ret.val, exc |-> ret.exc,
     sleeps |-> sleeps]

SendInit ==
    /\ s_plugin = "none"
    /\ s_pc = "idle"
    /\ s_attempt = 0
    /\ s_last_exception = "None"
    /\ s_ret = [kind |-> "none", val |-> FALSE, exc |-> "None"]
    /\ s_requests = <<>>
    /\ s_sleeps = <<>>
    /\ s_outcomes = <<>>
    \* no task invocation is under way
    /\ executor = "execute_task"
    /\ task_config = IdleTask
    /\ pc = "idle"
    /\ notifiers = <<>>
    /\ error_notifiers = <<>>
    /\ idx = 0
    /\ exc = <<>>
    /\ err_from = ""
    /\ final_output = <<>>
    /\ should_notify = TRUE
    /\ status = "running"
    /\ log = <<>>
    /\ stored = InitialStore(IdleTask)
    /\ run = 1
    /\ first = NoFirst
    \* no decorated call is under way
    /\ retry_config = [max_retries |-> 0, backoff_factor |-> 1, on_retry |-> FALSE]
    /\ r_pc = "idle"
    /\ attempt = 0
    /\ caught = NoExc
    /\ last_exception = NoExc
    /\ r_log = <<>>
    /\ r_result = [kind |-> "none", exc |-> NoExc, val |-> ""]
    \* the plugin loader is not in use
    /\ plugin_dirs = [d \in PluginDirNames |-> Absent]
    /\ unit = DefaultUnit
    /\ sys_modules = {}
    /\ discover_calls = 0
    /\ discovered = [t \in RequestedTypes |-> {}]
    /\ loaded = NoLoad
    \* no email notifier is in use
    /\ e_config = [kind |-> "absent", items |-> <<>>]
    /\ e_original = [kind |-> "absent", items |-> <<>>]
    /\ env_to_emails = <<>>
    /\ e_pc = "idle"
    /\ self_to_emails = [shared |-> FALSE, items |-> <<>>]
    /\ recipients = <<>>
    \* nothing is being scheduled
    /\ s_mode = "normal"
    /\ tasks = <<>>
    /\ s_i = 0
    /\ task = 0
    /\ execute_func = ""
    /\ callbacks = {}
    /\ jobs = {}
    /\ runs = <<>>
    \* no OpenAI sender is in use
    /\ HAS_OPENAI_SDK = TRUE
    /\ o_config = [use_sdk |-> "absent", api_key |-> TRUE]
    /\ o_pc = "idle"
    /\ use_sdk = "True"
    /\ o_calls = <<>>
    \* no plugin with an optional dependency is being loaded
    /\ installed = TRUE
    /\ has_key = TRUE
    /\ d_tasks = <<>>
    /\ d_i = 0
    /\ d_pc = "idle"
    /\ binding = "unbound"
    /\ cached = FALSE
    /\ d_exc = [type |-> "", hint |-> FALSE]
    /\ d_outcomes = <<>>
    \* no trigger plugin is in use
    /\ api = "None"
    /\ last_tweet_id = 0
    /\ trigger_data = <<>>
    /\ newest = 0
    /\ n_checks = 0
    /\ returned = "none"
    /\ before = [id |-> 0, data |-> <<>>]
    /\ expected = <<>>
    \* the application: run() is scheduling its tasks, no signal has arrived
    /\ mode = "normal"
    /\ app_pc = "startup"
    /\ task_i = 0
    /\ scheduler = "stopped"
    /\ manager = "running"
    /\ handler = "none"
    /\ sched_called = FALSE
    /\ late = 0
    \* no plugin is being constructed concurrently
    /\ environ = [v \in ProxyVars |-> Unset]
    /\ environ0 = [v \in ProxyVars |-> Unset]
    /\ t_pc = [t \in Threads |-> "idle"]
    /\ t_var = [t \in Threads |-> 0]
    /\ proxy_env_backup = [t \in Threads |-> <<>>]
    /\ t_result = [t \in Threads |-> NoResult]
    /\ client_env = [t \in Threads |-> {}]
    \* no trigger is registered
    /\ loop = [t \in TriggerIds |-> "UNREGISTERED"]
    /\ in_flight = [t \in TriggerIds |-> 0]
    /\ task_running = [t \in TriggerIds |-> 0]
    /\ polls = [t \in TriggerIds |-> 0]

\* main.py 144: success = notifier.send(summary, title); utils.py 70-73: the
\* wrapper is entered
NotifierSendCall ==
    /\ s_pc = "idle"
    /\ Len(s_outcomes) < MaxSends
    /\ \E plugin \in {"bark", "telegram"} : s_plugin' = plugin
    /\ s_attempt' = 0
    /\ s_last_exception' = "None"
    /\ s_ret' = [kind |-> "none", val |-> FALSE, exc |-> "None"]
    /\ s_sleeps' = <<>>
    /\ s_pc' = "loop"
    /\ UNCHANGED <<s_requests, s_outcomes>>
    /\ UNCHANGED nonSendVars

\* utils.py 75-77 and 95: the next iteration calls send; when range(max_retries)
\* is used up the wrapper raises last_exception
WrapperLoop ==
    /\ s_pc = "loop"
    /\ IF s_attempt < SendMaxRetries
       THEN /\ s_pc' = "func"
            /\ UNCHANGED <<s_plugin, s_outcomes>>
       ELSE /\ s_outcomes' = Append(s_outcomes,
                SendOutcome(s_plugin, Raising(s_last_exception), s_sleeps))
            /\ s_plugin' = "none"
            /\ s_pc' = "idle"
    /\ UNCHANGED <<s_attempt, s_last_exception, s_ret, s_requests, s_sleeps>>
    /\ UNCHANGED nonSendVars

\* bark.py 29-65, telegram.py 28-60: the body of send makes one request and ends
SendRequest ==
    /\ s_pc = "func"
    /\ \E outcome \in HttpOutcomes :
         /\ s_requests' = Append(s_requests,
                [send |-> Len(s_outcomes) + 1, outcome |-> outcome])
         /\ s_ret' = SendOf(s_plugin, outcome)
    /\ s_pc' = "called"
    /\ UNCHANGED <<s_plugin, s_attempt, s_last_exception, s_sleeps, s_outcomes>>
    /\ UNCHANGED nonSendVars

\* utils.py 76-92: a value is returned to the caller; an exception of the
\* retryable set is kept, followed by a sleep unless the attempt was the last;
\* any other exception leaves the wrapper
WrapperHandle ==
    /\ s_pc = "called"
    /\ IF s_ret.kind = "raise" /\ s_ret.exc \in SendRetryable
       THEN /\ s_last_exception' = s_ret.exc
            /\ s_sleeps' = IF ShouldRetry(s_attempt, SendMaxRetries)
                           THEN Append(s_sleeps, SleepTime(SendBackoffFactor, s_attempt))
                           ELSE s_sleeps
            /\ s_attempt' = s_attempt + 1
            /\ s_pc' = "loop"
            /\ UNCHANGED <<s_plugin, s_outcomes>>
       ELSE /\ s_outcomes' = Append(s_outcomes, SendOutcome(s_plugin, s_ret, s_sleeps))
            /\ s_plugin' = "none"
            /\ s_pc' = "idle"
            /\ UNCHANGED <<s_attempt, s_last_exception, s_sleeps>>
    /\ UNCHANGED <<s_ret, s_requests>>
    /\ UNCHANGED nonSendVars

SendNext ==
    \/ NotifierSendCall
    \/ WrapperLoop
    \/ SendRequest
    \/ WrapperHandle

\* ============================================================ specifications
\* one task invocation
ExecSpec == ExecInit /\ [][ExecNext]_vars
\* one call of a function decorated with retry_with_backoff
RetrySpec == RetryInit /\ [][RetryNext]_vars
\* one task run by execute_task and then by execute_pack_task
EquivSpec == EquivInit /\ [][EquivNext]_vars
\* one task invocation, the notifier plugins possibly email notifiers
ConfigSpec == ConfigInit /\ [][ExecNext]_vars
\* the plugin loader over one plugin directory
LoaderSpec == LoaderInit /\ [][LoaderNext]_vars
\* load_plugin over one plugin module
ResolveSpec == ResolveInit /\ [][ResolveNext]_vars
\* two concurrent constructions of AnthropicSender
ProxySpec == ProxyInit /\ [][ProxyNext]_vars
\* the poll loops of the trigger manager
TriggerSpec == TriggerInit /\ [][TriggerNext]_vars
\* the application from start to exit, a shutdown signal arriving at any time
ShutdownSpec == ShutdownInit /\ [][ShutdownNext]_vars
\* one tweet or mention trigger from setup() to teardown()
TweetSpec == TweetInit /\ [][TweetNext]_vars
\* tasks whose llm plugin needs the optional anthropic package
DependencySpec == DependencyInit /\ [][DependencyNext]_vars
\* one enhanced OpenAI sender, constructed and called
OpenAISpec == OpenAIInit /\ [][OpenAINext]_vars
\* the tasks of a configuration, scheduled by run() or run by --test
ScheduleSpec == ScheduleInit /\ [][ScheduleNext]_vars
EmailSpec == EmailInit /\ [][EmailNext]_vars

\* calls of the decorated send of the Bark and Telegram notifiers
SendSpec == SendInit /\ [][SendNext]_vars

\* ================================================================ properties
Events(ev) == {k \in 1..Len(log) : log[k].ev = ev}
EventsOf(ev, i) == {k \in 1..Len(log) : log[k].ev = ev /\ log[k].idx = i}
Returned(ev) == \E k \in Events(ev) : log[k].res = "ok"
Notifiers == 1..Len(notifiers)
ErrorNotifiers == 1..Len(error_notifiers)
Resolvable(i) ==
    NotifierLoader(executor, task_config, notifiers[i]) # "skip"
LoadedOk(i) == \E k \in EventsOf("load_notifier", i) : log[k].res = "ok"
LoadRaisedBefore(i) ==
    \E k \in Events("load_notifier") : log[k].idx < i /\ log[k].res = "raise"
\* the notifier loop of a run with notification allowed has just been left,
\* by running off the list or by an exception that reached the outer handler
NotifyLoopLeft ==
    /\ pc \in {"log_completed", "error_begin"}
    /\ should_notify
    /\ Returned("summarize")

EarlyStages == {"INIT", "FETCH_CONTENT", "SUMMARIZE"}
OnlyErrorCallsAfter(k) ==
    \A m \in 1..Len(log) :
        m > k => log[m].ev \in {"load_error_notifier", "send_error"}

\* C2: a failure of content resolution, fetch, LLM resolution or summarize
\* aborts the invocation: the failing call is the last stage call, no action
\* pipeline runs, no regular notifier is loaded or sent to, and when the
\* handler has finished every configured error-notifier was loaded once and,
\* once loaded, sent to exactly once, with a message that carries str(e) and a
\* title that carries the task name.
C2_AbortAndErrorFanOut ==
    err_from \in EarlyStages =>
      /\ exc # <<>>
      /\ Events("execute_pipeline") = {}
      /\ Events("load_notifier") = {}
      /\ Events("send") = {}
      /\ ~Returned("summarize")
      /\ \A k \in 1..Len(log) :
           (log[k].ev \notin {"load_error_notifier", "send_error"} /\ log[k].res # "ok")
             => OnlyErrorCallsAfter(k)
      /\ \A k \in Events("send_error") :
           /\ log[k].message.text = exc
           /\ log[k].title.text = TaskName(executor, task_config)
      /\ pc = "done" =>
           \A i \in ErrorNotifiers :
             IF error_notifiers[i] = "plugin"
             THEN /\ Cardinality(EventsOf("load_error_notifier", i)) = 1
                  /\ \A k \in EventsOf("load_error_notifier", i) :
                       Cardinality(EventsOf("send_error", i))
                         = IF log[k].res = "ok" THEN 1 ELSE 0
             ELSE /\ EventsOf("load_error_notifier", i) = {}
                  /\ EventsOf("send_error", i) = {}

\* C2 witness: fetch raised, and both error-notifiers of the task were sent
\* the failure message.
C2_Witness ==
    /\ pc = "done"
    /\ err_from = "FETCH_CONTENT"
    /\ exc = <<"fetch error">>
    /\ Len(error_notifiers) = 2
    /\ \A i \in ErrorNotifiers : Cardinality(EventsOf("send_error", i)) = 1

\* C3: total containment.  No exception of any stage leaves the executor:
\* the invocation never ends by raising, it ends completed or failed; and when
\* it ends failed every error-notifier that names a plugin was attempted,
\* also after an earlier error-notifier failed to load or raised from send.
C3_TotalContainment ==
    /\ status # "raised"
    /\ pc # "raised"
    /\ pc = "done" => status \in {"completed", "failed"}
    /\ (pc = "done" /\ status = "failed") =>
         \A i \in ErrorNotifiers :
           error_notifiers[i] = "plugin"
             => EventsOf("load_error_notifier", i) # {}

\* C3 witness: the first error-notifier raised from send, the second one was
\* still loaded, and the invocation ended failed.
C3_Witness ==
    /\ pc = "done"
    /\ status = "failed"
    /\ \E k \in EventsOf("send_error", 1) : log[k].res = "raise"
    /\ EventsOf("load_error_notifier", 2) # {}

Before(k, ev) == \E m \in 1..(k - 1) : log[m].ev = ev /\ log[m].res = "ok"

\* C4: the stages run in the order INIT, FETCH_CONTENT, SUMMARIZE, ACTIONS,
\* NOTIFY, DONE: summarize is called only after fetch returned, the action
\* pipeline only after summarize returned, a notifier is sent to only after
\* the action stage, and the outer handler (the ERROR sink) is entered only
\* from INIT, FETCH_CONTENT or SUMMARIZE.
C4_StageOrder ==
    /\ \A k \in Events("summarize") : Before(k, "fetch")
    /\ \A k \in Events("execute_pipeline") : Before(k, "summarize")
    /\ \A k \in Events("load_notifier") \cup Events("send") :
         /\ Before(k, "summarize")
         /\ (executor = "execute_pack_task" /\ task_config.actions > 0)
              => \E m \in 1..(k - 1) : log[m].ev = "execute_pipeline"
    /\ err_from \in EarlyStages \cup {""}

\* C5: the task status does not depend on the notifiers.  Once summarize has
\* returned, the invocation ends completed, no error-notifier is loaded or
\* sent to, and fetch and summarize were each called exactly once.
C5_StatusIndependent ==
    (pc = "done" /\ Returned("summarize")) =>
      /\ status = "completed"
      /\ Events("load_error_notifier") = {}
      /\ Events("send_error") = {}
      /\ Cardinality(Events("fetch")) = 1
      /\ Cardinality(Events("summarize")) = 1
\* ------------------------------------------------------- retry_with_backoff
REvents(ev) == {k \in 1..Len(r_log) : r_log[k].ev = ev}
FailedCalls == {k \in Calls : r_log[k].exc # NoExc}
\* the n fields of the events ev, in call order
RECURSIVE ArgsFrom(_, _)
ArgsFrom(ev, k) ==
    IF k > Len(r_log) THEN <<>>
    ELSE IF r_log[k].ev = ev THEN <<r_log[k].n>> \o ArgsFrom(ev, k + 1)
    ELSE ArgsFrom(ev, k + 1)
Sleeps == ArgsFrom("sleep", 1)
AllCallsRetryable ==
    \A k \in Calls : r_log[k].exc # NoExc /\ r_log[k].exc.type \in {"RequestException", "ConnectionError"}

\* C6: when func raises a retryable exception on its first k calls (k below
\* max_retries) and then returns, func was called exactly k+1 times, the
\* wrapper slept exactly k times, for backoff_factor^0, ..., backoff_factor^(k-1)
\* seconds in this order, and it returns the value func returned.
C6_FailThenSucceed ==
    (r_pc = "done" /\ r_result.kind = "return") =>
      LET k == Cardinality(FailedCalls) IN
        /\ k < retry_config.max_retries
        /\ Cardinality(Calls) = k + 1
        /\ Sleeps = [i \in 1..k |-> Pow(retry_config.backoff_factor, i - 1)]
        /\ r_log[Len(r_log)].ev = "call"
        /\ r_log[Len(r_log)].exc = NoExc
        /\ r_result.val = r_log[Len(r_log)].val

\* C6 witness: max_retries = 3, backoff_factor = 2, two failures and a success:
\* three calls, sleeps of 1 s and 2 s.
C6_Witness ==
    /\ r_pc = "done"
    /\ r_result.kind = "return"
    /\ retry_config.max_retries = 3
    /\ retry_config.backoff_factor = 2
    /\ Cardinality(Calls) = 3
    /\ Sleeps = <<1, 2>>

\* C7: when func raises a retryable exception on every call, it is called
\* exactly max_retries times, the last failed call is followed by no sleep
\* (and no on_retry), and the wrapper raises the exception of the last call
\* itself: same type, same object.
C7_ExhaustedReraises ==
    (r_pc = "done" /\ retry_config.max_retries >= 1 /\ AllCallsRetryable) =>
      /\ Cardinality(Calls) = retry_config.max_retries
      /\ Len(Sleeps) = retry_config.max_retries - 1
      /\ r_log[Len(r_log)].ev = "call"
      /\ r_result.kind = "raise"
      /\ r_result.exc = r_log[Len(r_log)].exc
      /\ r_result.exc.id = retry_config.max_retries

\* C7 witness: three attempts, all failed, the third call's exception raised.
C7_Witness ==
    /\ r_pc = "done"
    /\ retry_config.max_retries = 3
    /\ AllCallsRetryable
    /\ r_result.kind = "raise"
    /\ r_result.exc = [type |-> "ConnectionError", id |-> 3]

\* C8: an exception outside the retryable set leaves the wrapper at once, at
\* whichever attempt it occurs: the call that raised it is the last event (no
\* further call, no sleep, no on_retry) and the wrapper raises that exception.
C8_NonRetryablePropagates ==
    \A k \in Calls :
        (r_log[k].exc # NoExc /\ r_log[k].exc.type = "ValueError") =>
          /\ k = Len(r_log)
          /\ r_pc = "done"
          /\ r_result = [kind |-> "raise", exc |-> r_log[k].exc, val |-> ""]

\* C8 witness: the second attempt raised ValueError after one retry.
C8_Witness ==
    /\ r_pc = "done"
    /\ Cardinality(Calls) = 2
    /\ r_result.kind = "raise"
    /\ r_result.exc = [type |-> "ValueError", id |-> 2]

\* C9: with on_retry supplied, every sleep is directly preceded by one
\* on_retry call, which directly follows the failed call; every on_retry call
\* is followed by the sleep; when the wrapper has ended the numbers of on_retry
\* calls and of sleeps are equal and the last event is a call of func (no
\* on_retry after the final failed attempt or after a success).
C9_OnRetryBeforeSleep ==
    retry_config.on_retry =>
      /\ \A k \in REvents("sleep") :
           /\ k >= 3
           /\ r_log[k - 1].ev = "on_retry"
           /\ r_log[k - 2].ev = "call"
           /\ r_log[k - 2].exc # NoExc
      /\ \A k \in REvents("on_retry") :
           /\ k >= 2
           /\ r_log[k - 1].ev = "call"
           /\ IF k < Len(r_log) THEN r_log[k + 1].ev = "sleep" ELSE r_pc = "sleep"
      /\ r_pc = "done" =>
           /\ Cardinality(REvents("on_retry")) = Cardinality(REvents("sleep"))
           /\ r_log # <<>> => r_log[Len(r_log)].ev = "call"

\* C9 witness: on_retry supplied, two retries, the third attempt ended the call.
C9_Witness ==
    /\ retry_config.on_retry
    /\ r_pc = "done"
    /\ Cardinality(REvents("on_retry")) = 2
    /\ Cardinality(REvents("sleep")) = 2

\* C10 as stated: the attempt number passed to on_retry is the zero-indexed
\* attempt of the call that failed, the one the following sleep of
\* backoff_factor^attempt is computed from, together with its exception.
C10_OnRetryZeroIndexed ==
    \A k \in REvents("on_retry") :
        /\ r_log[k].n = r_log[k - 1].n
        /\ r_log[k].exc = r_log[k - 1].exc
        /\ k < Len(r_log) =>
             r_log[k + 1].n = Pow(retry_config.backoff_factor, r_log[k - 1].n)

\* C10 amended: on_retry receives the one-based attempt number a + 1 of the
\* failed call (the first retry reports 1) and that call's exception, and the
\* sleep that follows lasts backoff_factor^a.
C10_OnRetryOneBased ==
    \A k \in REvents("on_retry") :
        /\ r_log[k].n = r_log[k - 1].n + 1
        /\ r_log[k].exc = r_log[k - 1].exc
        /\ k < Len(r_log) =>
             r_log[k + 1].n = Pow(retry_config.backoff_factor, r_log[k - 1].n)

\* C10 witness: the second retry: on_retry(2, e) and then a sleep of 3^1 s.
C10_Witness ==
    \E k \in REvents("on_retry") :
        /\ k < Len(r_log)
        /\ r_log[k].n = 2
        /\ r_log[k].exc.id = 2
        /\ r_log[k + 1].ev = "sleep"
        /\ r_log[k + 1].n = 3

\* ------------------------------------------------------------- plugin loader
\* every result of discover_plugins for a plugin type is the same dict, with
\* the same insertion order
C11_SameResult ==
    \A t \in RequestedTypes : \A a, b \in discovered[t] : a.result = b.result
\* a call of discover_plugins imports nothing and leaves the directories alone
C11_NoSideEffect ==
    discover_calls' # discover_calls =>
        /\ plugin_dirs' = plugin_dirs
        /\ sys_modules' = sys_modules
        /\ loaded' = loaded

\* C11: discover_plugins is idempotent and free of side effects.  However
\* often it is called for a plugin type, it returns the same names in the same
\* order, also when load_plugin was called in between (which imports a module
\* and makes the import system write its cache directory into the plugin
\* directory); and no call of it imports a module or changes a directory.
C11_DiscoverIdempotent == []C11_SameResult /\ [][C11_NoSideEffect]_vars

\* C11 witness: discover_plugins('notifier') returned the two plugins of the
\* directory before anything was imported and again after load_plugin had
\* imported one of them and the cache directory had appeared.
C11_Witness ==
    /\ discover_calls = 2
    /\ HasEntry(plugin_dirs["message_notice"], PyCache)
    /\ \E a, b \in discovered["notifier"] :
         /\ a.imported = {}
         /\ b.imported # {}
         /\ Len(a.result.items) = 2
         /\ b.result = a.result

SubclassMembers == {i \in DOMAIN unit.members : unit.members[i] = "subclass"}
\* the last load_plugin call imported the module and went on to resolve it
Resolving ==
    /\ loaded # NoLoad
    /\ loaded.exc \notin {"Unknown plugin type", "ImportError"}

\* C12: load_plugin resolves a plugin module in this order: the module's
\* callable `factory` when it has one; otherwise the one class of the module
\* that subclasses the interface of the plugin type.  With no factory and not
\* exactly one such class (none, or two or more) the load fails with a
\* resolution error and returns no instance.
C12_ExactlyOneCandidate ==
    Resolving =>
      IF unit.factory = "callable"
      THEN loaded.by # "class"
      ELSE IF Cardinality(SubclassMembers) = 1
      THEN /\ loaded.by # "factory"
           /\ loaded.by = "class" => loaded.member \in SubclassMembers
      ELSE /\ loaded.by = ""
           /\ loaded.exc = "No valid plugin class found"

\* ------------------------------------------------- action stage and fan-out
\* the marks of the actions 1..j, in declared order
MarksUpTo(j) == [i \in 1..j |-> ActionMark(i)]

\* C13: action chain short-circuit.  When the j-th action of the chain returns
\* should_continue = false, the actions 1..j ran in declared order, each on
\* the output of the one before, no later action ran, output and metadata of
\* the pipeline result are those of action j, and the executor takes that
\* output as final_output and that should_continue as its notification gate.
C13_ShortCircuit ==
    \A k \in Events("execute_pipeline") :
        log[k].res = "false" =>
          LET j == log[k].idx IN
            /\ j \in 1..task_config.actions
            /\ log[k].message.text = <<"summary">> \o MarksUpTo(j)
            /\ log[k].title.text = MarksUpTo(j)
            /\ final_output = log[k].message.text
            /\ should_notify = FALSE

\* C13 witness: the chain [A, B, C] in which B returned should_continue = false:
\* the final output is the summary processed by A and then by B.
C13_Witness ==
    /\ pc = "done"
    /\ task_config.actions = 3
    /\ \E k \in Events("execute_pipeline") : log[k].res = "false" /\ log[k].idx = 2
    /\ final_output = <<"summary", "1", "2">>
    /\ ~should_notify

\* C14: should_continue gating in execute_pack_task.  After a run in which
\* summarize returned: when the pipeline result has should_continue = false no
\* notifier is loaded or sent to, no error-notifier is loaded or sent to, and
\* the task ends completed; when it is true every configured notifier is
\* attempted, and every send carries the pipeline's final output.
C14_Gating ==
    (executor = "execute_pack_task" /\ pc = "done" /\ Returned("summarize")) =>
      IF ~should_notify
      THEN /\ Events("load_notifier") = {}
           /\ Events("send") = {}
           /\ Events("load_error_notifier") = {}
           /\ Events("send_error") = {}
           /\ status = "completed"
      ELSE /\ \A i \in Notifiers : Resolvable(i) => EventsOf("load_notifier", i) # {}
           /\ \A k \in Events("send") : log[k].message.text = final_output

\* C15: with zero configured actions the action stage is the identity: every
\* send carries exactly the string summarize returned, the notification gate
\* is open, and the action pipeline is never called (no tool list and no
\* action is loaded).
C15_ZeroActionsIdentity ==
    (executor = "execute_task" \/ task_config.actions = 0) =>
      /\ should_notify
      /\ Events("get_llm_tools") = {}
      /\ Events("execute_pipeline") = {}
      /\ \A k \in Events("send") :
           \E m \in Events("summarize") :
             /\ m < k
             /\ log[m].res = "ok"
             /\ log[k].message = log[m].message

\* C15 witness: execute_pack_task without actions sent the summary to two
\* notifiers.
C15_Witness ==
    /\ pc = "done"
    /\ executor = "execute_pack_task"
    /\ task_config.actions = 0
    /\ Cardinality(Events("send")) = 2
    /\ \A k \in Events("send") : log[k].message.text = <<"summary">>

\* the calls S were made in the declared order of the list, one entry at a
\* time: the entry's load, then its send, then the next entry
InDeclaredOrder(S, load) ==
    \A k, m \in S :
        k < m => \/ log[k].idx < log[m].idx
                 \/ /\ log[k].idx = log[m].idx
                    /\ log[k].ev = load
                    /\ log[m].ev # load

\* C16: the notifiers are handled in the declared order of the task's list,
\* one at a time: notifier i's load and send have returned or raised before
\* notifier j > i is loaded or sent to, and no notifier is loaded or sent to
\* twice; the same holds for the error-notifier list.
C16_DeclaredOrder ==
    /\ pc \in {"notify", "notify_send", "log_completed", "error_begin"} =>
         InDeclaredOrder(Events("load_notifier") \cup Events("send"), "load_notifier")
    /\ pc \in {"error", "err_send", "done"} =>
         InDeclaredOrder(Events("load_error_notifier") \cup Events("send_error"),
                         "load_error_notifier")

\* C16 witness: two notifiers and, after the second one failed to load in
\* execute_pack_task, two error-notifiers, all sent to.
C16_Witness ==
    /\ pc = "done"
    /\ EventsOf("send", 1) # {}
    /\ \E k \in EventsOf("load_notifier", 2) : log[k].res = "raise"
    /\ EventsOf("send_error", 1) # {}
    /\ EventsOf("send_error", 2) # {}

\* ------------------------------------------------------ the two executors
\* the calls of a log with how each ended, without their arguments
CallsOf(l) == [k \in DOMAIN l |-> [ev |-> l[k].ev, idx |-> l[k].idx, res |-> l[k].res]]

\* C17: on a task without pack, actions and trigger the two executors are
\* equivalent: with the same task configuration and the same plugin behaviour
\* execute_pack_task makes the same sequence of load, fetch, summarize,
\* notifier-send and error-notifier-send calls, each ending the same way, as
\* execute_task did, and ends with the same status.
C17_ExecutorsEquivalent ==
    (run = 2 /\ pc = "done") =>
      /\ CallsOf(log) = CallsOf(first.log)
      /\ status = first.status

\* the nested dicts of task_config as the configuration loader built them
OriginalStore ==
    [content |-> OriginalContent(task_config),
     llm |-> OriginalLLM(task_config),
     notifiers |-> [i \in DOMAIN stored.notifiers |-> OriginalEntry(notifiers[i])],
     error_notifiers |->
        [i \in DOMAIN stored.error_notifiers |-> OriginalEntry(error_notifiers[i])]]

\* C18: the task configuration is read-only for the executor.  During and
\* after a run, completed or failed, the content and llm dicts and every
\* notifier and error-notifier entry of task_config are as they were: every
\* 'plugin' and 'type' key is present, no 'tools' key was added, and the
\* values they hold (the to_emails list) are unchanged.
C18_ConfigReadOnly == stored = OriginalStore

\* -------------------------------------------------------------- reentrancy
AllEnded == \A t \in Threads : t_pc[t] \in {"done", "failed"}

\* C19: two task invocations that construct their LLM sender concurrently do
\* not disturb each other: once both constructions have ended, under every
\* interleaving, each has ended as it can end alone (the client was created
\* with every proxy variable cleared, or its constructor raised; never a
\* KeyError on os.environ) and every proxy variable of os.environ has the
\* value it had before.
C19_Reentrant ==
    AllEnded =>
      /\ environ = environ0
      /\ \A t \in Threads :
            /\ t_result[t] \in {"constructed", "client error"}
            /\ client_env[t] = {}

\* ----------------------------------------------------------------- triggers
\* C20: for every trigger id at most one check() is in flight, and none while
\* a task started by the callback of that trigger is still running; and a
\* trigger whose loop is waiting for its next poll can poll whatever the
\* loops of the other triggers are doing.
C20_OneCheckInFlight ==
    \A t \in TriggerIds :
        /\ in_flight[t] <= 1
        /\ in_flight[t] = 1 => task_running[t] = 0
        /\ (loop[t] = "POLLING" /\ polls[t] < MaxPolls) => ENABLED CheckBegin(t)

\* C20 witness: one trigger has a check() in flight, having polled more
\* often than another trigger whose callback is still running its task.
C20_Witness ==
    \E t1, t2 \in TriggerIds :
        /\ t1 # t2
        /\ loop[t1] = "CALLBACK" /\ task_running[t1] = 1
        /\ loop[t2] = "CHECK" /\ in_flight[t2] = 1
        /\ polls[t2] > polls[t1]

\* ------------------------------------------------------------------ shutdown
C21_State ==
    /\ sched_called => manager = "shutdown"
    /\ handler = "ended" => sched_called
    /\ manager = "shutdown" /\ handler # "tm_shutdown" =>
          \A t \in TriggerIds : loop[t] \notin {"REGISTERED", "POLLING"}
    /\ late = 0
C21_Step ==
    manager = "shutdown" =>
        \A t \in TriggerIds :
            /\ polls'[t] = polls[t]
            /\ task_running'[t] <= task_running[t]

\* C21: on a shutdown signal the trigger manager is shut down before the
\* scheduler's shutdown is called, the scheduler's shutdown is called on
\* every path through the handler, every poll loop is stopped (its trigger
\* torn down, or finishing the check or callback it was in), and from then on
\* no check() is called and no task is invoked: not by a trigger callback,
\* not by the scheduler, and not by the main thread once the handler has ended.
C21_GracefulShutdown == []C21_State /\ [][C21_Step]_vars

\* ------------------------------------------------------------ trigger data
\* C22: check() never raises; a check() that returned false has changed
\* neither the last-seen id nor the trigger data; and get_trigger_data()
\* returns what the most recent check() that returned true has found ({} if
\* none has).
C22_CheckContract ==
    /\ returned # "raised"
    /\ returned = "false" =>
          /\ last_tweet_id = before.id
          /\ trigger_data = before.data
    /\ GetTriggerData = expected

\* ------------------------------------------------------ missing dependency
\* C23: without the anthropic package every task that loads anthropic_sender
\* ends failed (the exception does not leave the executor) with an
\* ImportError whose text carries the install hint, and with no other
\* exception type.
C23_DependencyMissing ==
    ~installed =>
        \A k \in DOMAIN d_outcomes :
            d_outcomes[k].plugin = "anthropic_sender" =>
                /\ d_outcomes[k].status = "failed"
                /\ d_outcomes[k].exc = Error("ImportError", TRUE)

\* ------------------------------------------------------ notifier load failure
\* C24: in both executors a notifier whose load or construction raised is
\* isolated like a failing send: at the end of the run every configured
\* notifier has been attempted, no error-notifier was loaded or sent to, and
\* the task has ended completed.
C24_LoadIsolation ==
    (pc = "done" /\ \E k \in Events("load_notifier") : log[k].res = "raise") =>
        /\ \A i \in Notifiers : Resolvable(i) => EventsOf("load_notifier", i) # {}
        /\ Events("load_error_notifier") = {}
        /\ Events("send_error") = {}
        /\ status = "completed"

\* ------------------------------------------------------ graceful degradation
\* C25: the construction of the enhanced OpenAI sender fails on a missing
\* API key and on nothing else, with or without the SDK; without the SDK
\* self.use_sdk is falsy whatever use_sdk is configured to and every
\* summarize call takes the HTTP path; a summarize call takes the SDK path
\* only if the SDK is present and use_sdk was not configured false.
C25_GracefulDegradation ==
    /\ o_pc = "failed" => ~o_config.api_key
    /\ o_pc = "constructed" => o_config.api_key
    /\ (o_pc = "constructed" /\ ~HAS_OPENAI_SDK) =>
          /\ ~Truthy(use_sdk)
          /\ \A k \in DOMAIN o_calls : o_calls[k].path = "requests"
    /\ \A k \in DOMAIN o_calls :
          o_calls[k].path = "sdk" => HAS_OPENAI_SDK /\ o_config.use_sdk # "False"

\* C25 witness: without the SDK and with use_sdk configured true, the sender
\* was constructed and has made two summarize calls.
C25_Witness ==
    /\ ~HAS_OPENAI_SDK
    /\ o_config.use_sdk = "True"
    /\ o_pc = "constructed"
    /\ Len(o_calls) >= 2

\* ------------------------------------------------------------- task callbacks
\* C26: every run started by the callback registered under a trigger id
\* executes the task of that id, with the executor schedule_tasks selected for
\* that task and with the data of that trigger.
C26_CallbackRunsOwnTask ==
    \A k \in DOMAIN runs :
        runs[k].via = "trigger" =>
            /\ runs[k].task = runs[k].id
            /\ runs[k].executor = ExecuteFunc(tasks[runs[k].id])
            /\ runs[k].data = runs[k].id

\* ------------------------------------------------------------------ test mode
\* C29: test mode runs every task with the executor schedule_tasks selects
\* for it, so that a task with a pack, actions or a trigger goes through the
\* action stage and its notification gate.
C29_TestModeSameExecutor ==
    \A k \in DOMAIN runs :
        runs[k].via = "test" =>
            runs[k].executor = ExecuteFunc(tasks[runs[k].task])

\* C27: constructing an EmailNotifier leaves the to_emails entry of the task
\* configuration as it was loaded, and every invocation of the task sends to
\* the recipients of the first invocation.
C27_SameRecipients ==
    e_pc # "idle" =>
        /\ e_config = e_original
        /\ \A k \in 1..Len(recipients) : recipients[k] = recipients[1]

\* C28: with max_retries <= 0 the wrapper is transparent: when it has ended,
\* func has been called, and the wrapper returned the value of the last call or
\* raised the exception of the last call.
C28_TransparentWrapper ==
    (r_pc = "done" /\ retry_config.max_retries <= 0) =>
      /\ Calls # {}
      /\ r_log[Len(r_log)].ev = "call"
      /\ IF r_result.kind = "return"
         THEN /\ r_log[Len(r_log)].exc = NoExc
              /\ r_result.val = r_log[Len(r_log)].val
         ELSE /\ r_result.kind = "raise"
              /\ r_result.exc = r_log[Len(r_log)].exc

\* the requests a finished send made
RequestsOf(k) == {j \in 1..Len(s_requests) : s_requests[j].send = k}

\* C30: a send of the Bark or Telegram notifier whose every request got no
\* answer has made three requests, slept 1 s and 2 s between them, and has
\* returned False to the executor.
C30_RetryEffective ==
    \A k \in 1..Len(s_outcomes) :
        (\A j \in RequestsOf(k) : s_requests[j].outcome = "transport_error") =>
            /\ Cardinality(RequestsOf(k)) = SendMaxRetries
            /\ s_outcomes[k].sleeps = <<1, 2>>
            /\ s_outcomes[k].kind = "return"
            /\ s_outcomes[k].val = FALSE

====
